---- MODULE Spec2Model ----
(***************************************************************************)
(* Fakti invoicing application: the invoice views (invoices/views.py), the *)
(* invoice forms (invoices/forms.py) and the per-user invoice number       *)
(* constraint (migration 0004), over a database of invoices and their line *)
(* items.                                                                  *)
(*                                                                         *)
(* Decimal fields are fixed-point integers: money in cents (2 decimals),   *)
(* quantities in hundredths, percentages in hundredths of a percent.       *)
(* Line items of one invoice are kept as a sequence in primary-key order.  *)
(***************************************************************************)
EXTENDS Integers, Sequences, FiniteSets, TLC

VARIABLES invoices, line_items, nextPk, response, inflight, clients, catalog,
          now

vars == <<invoices, line_items, nextPk, response, inflight, clients, catalog,
          now>>

(***************************************************************************)
(* Bounds of the model.                                                    *)
(***************************************************************************)
\* invoice primary keys ever allocated
MaxInvoices == 2
\* line-item forms in one formset submission
MaxLines == 2
\* invoices one user has when the payment rate is computed
MaxRateInvoices == 5

\* timezone.now().year when the first request arrives
ThisYear == 2025

(***************************************************************************)
(* Users, clients and the value sets requests are drawn from.              *)
(***************************************************************************)
Users == {"alice", "bob"}

NoClient == "none"

Clients == {"c_alice", "c_bob"}

\* Client.user of the clients stored at the start
ClientOwner == [c \in Clients |-> IF c = "c_alice" THEN "alice" ELSE "bob"]

\* Client.objects.filter(user=user)
ClientsOf(user) == {c \in DOMAIN clients : clients[c].user = user}

\* a line item that names no catalog item
NoItem == "none"

\* the catalog items stored at the start
Items == {"i_alice", "i_bob"}

\* Item.user of the catalog items stored at the start
ItemOwner == [i \in Items |-> IF i = "i_alice" THEN "alice" ELSE "bob"]

\* Item.objects.filter(user=user)
ItemsOf(user) == {i \in DOMAIN catalog : catalog[i].user = user}

\* submitted invoice numbers; "" is a missing value
Numbers == {"INV-1", "INV-2"}

\* Invoice.STATUS_CHOICES keys
STATUS_CHOICES == {"draft", "sent", "paid", "overdue", "canceled"}

\* status strings a URL or a form can carry
StatusInputs == STATUS_CHOICES \cup {"invalid"}

Methods == {"GET", "POST"}

(***************************************************************************)
(* Decimal arithmetic.                                                     *)
(***************************************************************************)
\* n / d rounded half up to an integer, for n >= 0 and d > 0
RoundHalfUp(n, d) == (2 * n + d) \div (2 * d)

\* a save that stores the line_total the caller set
InvoiceItem_save_as_given(item, quantity, unit_price, line_total) ==
    [item |-> item, quantity |-> quantity, unit_price |-> unit_price,
     line_total |-> line_total]

\* InvoiceItem.save() on an item whose line_total the caller set:
\* line_total = quantity * unit_price, 2 decimals
InvoiceItem_save(item, quantity, unit_price, line_total) ==
    [item |-> item, quantity |-> quantity, unit_price |-> unit_price,
     line_total |-> RoundHalfUp(quantity * unit_price, 100)]

RECURSIVE SumLineTotals(_)
\* sum(item.line_total for item in invoice.line_items.all())
SumLineTotals(items) ==
    IF items = <<>> THEN 0
    ELSE Head(items).line_total + SumLineTotals(Tail(items))

\* a recalculation that adds the line totals to the subtotal already there
calculate_totals_accumulating(inv, items) ==
    LET subtotal == inv.subtotal + SumLineTotals(items)
        tax_amount == RoundHalfUp(subtotal * inv.tax_percent, 10000)
        discount_amount == RoundHalfUp(subtotal * inv.discount_percent, 10000)
    IN  [inv EXCEPT !.subtotal = subtotal,
                    !.tax_amount = tax_amount,
                    !.discount_amount = discount_amount,
                    !.total = subtotal + tax_amount - discount_amount]

\* a recalculation that cuts the tax and discount amounts off at 2 decimals
calculate_totals_truncating(inv, items) ==
    LET subtotal == SumLineTotals(items)
        tax_amount == (subtotal * inv.tax_percent) \div 10000
        discount_amount == (subtotal * inv.discount_percent) \div 10000
    IN  [inv EXCEPT !.subtotal = subtotal,
                    !.tax_amount = tax_amount,
                    !.discount_amount = discount_amount,
                    !.total = subtotal + tax_amount - discount_amount]

\* Invoice.calculate_totals: overwrite the four derived fields of inv
calculate_totals(inv, items) ==
    LET subtotal == SumLineTotals(items)
        tax_amount == RoundHalfUp(subtotal * inv.tax_percent, 10000)
        discount_amount == RoundHalfUp(subtotal * inv.discount_percent, 10000)
    IN  [inv EXCEPT !.subtotal = subtotal,
                    !.tax_amount = tax_amount,
                    !.discount_amount = discount_amount,
                    !.total = subtotal + tax_amount - discount_amount]

(***************************************************************************)
(* The database.                                                           *)
(***************************************************************************)
NoPk == 0

\* primary keys a URL can name
Pks == 1..MaxInvoices

\* Invoice.objects.filter(user=user)
InvoicesOf(user) == {pk \in DOMAIN invoices : invoices[pk].user = user}

\* the table without the constraint, as before migration 0004
no_unique_constraint(table) == TRUE

\* UniqueConstraint(fields=["user", "invoice_number"]) on a table of invoices
unique_invoice_number_per_user(table) ==
    \A a, b \in DOMAIN table :
        (table[a].user = table[b].user
         /\ table[a].invoice_number = table[b].invoice_number) => a = b

\* the table after INSERT or UPDATE of row pk
WithRow(table, pk, row) ==
    [k \in DOMAIN table \cup {pk} |-> IF k = pk THEN row ELSE table[k]]

\* the table after DELETE of row pk
WithoutRow(table, pk) == [k \in DOMAIN table \ {pk} |-> table[k]]

\* a lookup by primary key alone, get_object_or_404(Invoice, pk=pk)
Found_any_owner(user, pk) == pk \in DOMAIN invoices

\* get_object_or_404(Invoice, pk=pk, user=request.user) finds a row
Found(user, pk) == pk \in DOMAIN invoices /\ invoices[pk].user = user

(***************************************************************************)
(* Forms.                                                                  *)
(***************************************************************************)
\* the pre-check with the owner filter left out of the queryset
clean_invoice_number_any_owner(user, instance_pk, number) ==
    LET qs == {pk \in DOMAIN invoices : invoices[pk].invoice_number = number}
        excluded == IF instance_pk # NoPk THEN qs \ {instance_pk} ELSE qs
    IN  number # "" => excluded = {}

\* a pre-check that counts the invoice being edited among the holders
clean_invoice_number_no_exclude(user, instance_pk, number) ==
    LET qs == {pk \in InvoicesOf(user) : invoices[pk].invoice_number = number}
    IN  number # "" => qs = {}

\* InvoiceForm.clean_invoice_number: TRUE when the number passes
clean_invoice_number(user, instance_pk, number) ==
    LET qs == {pk \in InvoicesOf(user) : invoices[pk].invoice_number = number}
        excluded == IF instance_pk # NoPk THEN qs \ {instance_pk} ELSE qs
    IN  number # "" => excluded = {}

\* InvoiceForm(request.POST, instance=..., user=user).errors: the fields
\* that failed validation
InvoiceForm_errors(user, instance_pk, post) ==
    (IF post.client \in ClientsOf(user) THEN {} ELSE {"client"})
    \cup (IF post.invoice_number # ""
             /\ clean_invoice_number(user, instance_pk, post.invoice_number)
          THEN {} ELSE {"invoice_number"})
    \cup (IF post.status \in STATUS_CHOICES THEN {} ELSE {"status"})

\* InvoiceForm(request.POST, instance=..., user=user).is_valid()
InvoiceForm_is_valid(user, instance_pk, post) ==
    InvoiceForm_errors(user, instance_pk, post) = {}

\* inlineformset_factory(..., min_num=1, validate_min=True)
min_num == 1

\* dates are day numbers; the due date InvoiceForm proposes lies after every
\* day on which a request is made
initial_due_date == 3

\* forms of a formset not marked for deletion
LiveForms(forms) == {i \in DOMAIN forms : ~forms[i].DELETE}

\* a line form that takes the catalog item of any owner
InvoiceItemForm_is_valid_any_item(user, form) == form.valid

\* InvoiceItemForm(user=user).is_valid(): the item field is optional and
\* chooses among Item.objects.filter(user=user)
InvoiceItemForm_is_valid(user, form) ==
    /\ form.valid
    /\ form.item = NoItem \/ form.item \in ItemsOf(user)

\* a formset built without min_num and validate_min
InvoiceItemFormSet_is_valid_no_min(user, forms) ==
    \A i \in LiveForms(forms) : InvoiceItemForm_is_valid(user, forms[i])

\* InvoiceItemFormSet(request.POST, instance=invoice, user=user).is_valid()
InvoiceItemFormSet_is_valid(user, forms) ==
    /\ \A i \in LiveForms(forms) : InvoiceItemForm_is_valid(user, forms[i])
    /\ Cardinality(LiveForms(forms)) >= min_num

RECURSIVE SavedForms(_)
\* the line items a formset leaves stored: deleted forms drop their row,
\* every other form is saved through InvoiceItem.save
SavedForms(forms) ==
    IF forms = <<>> THEN <<>>
    ELSE IF Head(forms).DELETE THEN SavedForms(Tail(forms))
    ELSE <<InvoiceItem_save(Head(forms).item, Head(forms).quantity,
                            Head(forms).unit_price, 0)>>
         \o SavedForms(Tail(forms))

\* InvoiceItemFormSet.save()
InvoiceItemFormSet_save(forms) == SavedForms(forms)

\* form.save(commit=False) on a new Invoice, then invoice.user = request.user
NewInvoice(user, post) ==
    [user |-> user, client |-> post.client,
     invoice_number |-> post.invoice_number, status |-> post.status,
     tax_percent |-> post.tax_percent,
     discount_percent |-> post.discount_percent,
     due_date |-> post.due_date,
     subtotal |-> 0, tax_amount |-> 0, discount_amount |-> 0, total |-> 0,
     created_at |-> now]

\* form.save() on an existing Invoice: the form's fields are overwritten
UpdatedInvoice(inv, post) ==
    [inv EXCEPT !.client = post.client,
                !.invoice_number = post.invoice_number,
                !.status = post.status,
                !.due_date = post.due_date,
                !.tax_percent = post.tax_percent,
                !.discount_percent = post.discount_percent]

(***************************************************************************)
(* The request just handled and its outcome.                               *)
(***************************************************************************)
\* the context of a response that renders no list and no statistics
NoContext == [object_list |-> {}]

\* EmailMessage(cc=cc or None, bcc=bcc or None): the copy recipients of the
\* message a request sent
EmailMessage(cc, bcc) == [cc |-> cc, bcc |-> bcc]

\* the pieces a CC or BCC value is made of: "," and ";", a run of
\* whitespace " ", and words, which are runs of other characters; a value is
\* a sequence of pieces
Separators == {",", ";"}

\* django.core.validators.validate_email on a stripped entry: the entry is
\* one word and that word is an address
validate_email(p) == Len(p) = 1 /\ p[1] \in {"a@x.io", "b@x.io"}

\* a _split_emails that keeps the entries it could not validate out of the
\* result instead of raising
split_emails_dropping(value) ==
    LET RECURSIVE split(_, _)
        split(v, part) ==
            IF v = <<>> THEN <<part>>
            ELSE IF Head(v) \in Separators
                 THEN <<part>> \o split(Tail(v), <<>>)
                 ELSE split(Tail(v), Append(part, Head(v)))
        RECURSIVE lstrip(_)
        lstrip(q) ==
            IF q # <<>> /\ Head(q) = " " THEN lstrip(Tail(q)) ELSE q
        RECURSIVE rstrip(_)
        rstrip(q) ==
            IF q # <<>> /\ q[Len(q)] = " "
            THEN rstrip(SubSeq(q, 1, Len(q) - 1)) ELSE q
        strip(q) == rstrip(lstrip(q))
        parts == SelectSeq(split(value, <<>>), LAMBDA q : strip(q) # <<>>)
        good == SelectSeq(parts, LAMBDA q : validate_email(strip(q)))
    IN  [valid |-> TRUE, parts |-> [i \in DOMAIN good |-> strip(good[i])[1]]]

\* SendInvoiceEmailForm._split_emails: ";" counts as ",", the value is split
\* at every ",", each part is stripped, empty parts are dropped and every
\* part left is validated; valid is FALSE where the code raises
\* ValidationError, parts are the entries returned
split_emails(value) ==
    LET RECURSIVE split(_, _)
        split(v, part) ==
            IF v = <<>> THEN <<part>>
            ELSE IF Head(v) \in Separators
                 THEN <<part>> \o split(Tail(v), <<>>)
                 ELSE split(Tail(v), Append(part, Head(v)))
        RECURSIVE lstrip(_)
        lstrip(q) ==
            IF q # <<>> /\ Head(q) = " " THEN lstrip(Tail(q)) ELSE q
        RECURSIVE rstrip(_)
        rstrip(q) ==
            IF q # <<>> /\ q[Len(q)] = " "
            THEN rstrip(SubSeq(q, 1, Len(q) - 1)) ELSE q
        strip(q) == rstrip(lstrip(q))
        parts == SelectSeq(split(value, <<>>), LAMBDA q : strip(q) # <<>>)
    IN  IF value = <<>> THEN [valid |-> TRUE, parts |-> <<>>]
        ELSE IF \E i \in DOMAIN parts : ~validate_email(strip(parts[i]))
        THEN [valid |-> FALSE, parts |-> <<>>]
        ELSE [valid |-> TRUE,
              parts |-> [i \in DOMAIN parts |-> strip(parts[i])[1]]]

\* SendInvoiceEmailForm(request.POST).is_valid(); form.valid tells whether
\* the fields other than cc and bcc validate
SendInvoiceEmailForm_is_valid(form) ==
    form.valid /\ split_emails(form.cc).valid /\ split_emails(form.bcc).valid

\* a send form with the CC and BCC fields left empty
PlainForm(valid) == [valid |-> valid, cc |-> <<>>, bcc |-> <<>>]

\* op, user, pk, method: the request; arg: the invoice number a create or
\* edit submitted, the invoice number a new create form proposes, the
\* target of a status change; outcome: "ok", "rendered"
\* (a page without effect), "invalid" (refused), "not_found", "error"
\* (an exception), "pdf_unavailable", "send_failed"; errors: the form fields
\* reported in error; mails: the messages delivered; was: the status of the
\* invoice as send_invoice_email or change_invoice_status loaded it;
\* context: what a rendered page was given to show; form: the send form
\* that was posted; message: the EmailMessage that was sent
Response(op, user, pk, method, outcome, arg, errors, mails, was) ==
    [op |-> op, user |-> user, pk |-> pk, method |-> method,
     outcome |-> outcome, arg |-> arg, errors |-> errors, mails |-> mails,
     was |-> was, context |-> NoContext, form |-> PlainForm(FALSE),
     message |-> EmailMessage(<<>>, <<>>)]

NoResponse == Response("none", "", NoPk, "", "", "", {}, 0, "")

\* a response that renders `context`
Rendered(op, user, arg, context) ==
    [Response(op, user, NoPk, "GET", "rendered", arg, {}, 0, "")
        EXCEPT !.context = context]

\* a create_invoice request between form.is_valid() and invoice.save()
Request(user, post, forms) == [user |-> user, post |-> post, forms |-> forms]

NoRequest == [user |-> ""]

(***************************************************************************)
(* Views.  Each action is one request handled from start to finish.        *)
(***************************************************************************)
\* a new form that counts the invoices of every user
InvoiceForm_initial_all_users(user) ==
    LET year == now
        count == Cardinality({pk \in DOMAIN invoices :
                                invoices[pk].created_at = year}) + 1
        RECURSIVE zfill(_)
        zfill(text) == IF Len(text) >= 5 THEN text ELSE zfill("0" \o text)
    IN  "INV-" \o ToString(year) \o "-" \o zfill(ToString(count))

\* InvoiceForm.__init__ for a new invoice: fields['invoice_number'].initial
\* is f"INV-{year}-{count:05d}", count one more than the user's invoices
\* created in the year of timezone.now()
InvoiceForm_initial(user) ==
    LET year == now
        count == Cardinality({pk \in DOMAIN invoices :
                                /\ invoices[pk].user = user
                                /\ invoices[pk].created_at = year}) + 1
        RECURSIVE zfill(_)
        zfill(text) == IF Len(text) >= 5 THEN text ELSE zfill("0" \o text)
    IN  "INV-" \o ToString(year) \o "-" \o zfill(ToString(count))

\* a create_invoice that keeps the inserted invoice when the formset fails
create_invoice_save_keeps_invoice(user, post, forms) ==
    LET pk == nextPk
        invoice == NewInvoice(user, post)
        saved == WithRow(invoices, pk, invoice)
        items == InvoiceItemFormSet_save(forms)
    IN
    /\ nextPk <= MaxInvoices
    /\ UNCHANGED <<clients, catalog, now>>
    /\ IF ~unique_invoice_number_per_user(saved)
       THEN /\ response' = Response("create", user, NoPk, "POST", "error",
                                    post.invoice_number, {}, 0, "")
            /\ UNCHANGED <<invoices, line_items, nextPk>>
       ELSE IF InvoiceItemFormSet_is_valid(user, forms)
       THEN /\ invoices' = WithRow(invoices, pk, calculate_totals(invoice, items))
            /\ line_items' = WithRow(line_items, pk, items)
            /\ nextPk' = nextPk + 1
            /\ response' = Response("create", user, pk, "POST", "ok",
                                    post.invoice_number, {}, 0, "")
       ELSE /\ invoices' = saved
            /\ line_items' = WithRow(line_items, pk, <<>>)
            /\ nextPk' = nextPk + 1
            /\ response' = Response("create", user, NoPk, "POST", "invalid",
                                    post.invoice_number, {"line_items"}, 0, "")

\* views.create_invoice from invoice.save() on, for a form that validated
create_invoice_save(user, post, forms) ==
    LET pk == nextPk
        invoice == NewInvoice(user, post)
        saved == WithRow(invoices, pk, invoice)
        items == InvoiceItemFormSet_save(forms)
    IN
    /\ nextPk <= MaxInvoices
    /\ UNCHANGED <<clients, catalog, now>>
    /\ IF ~unique_invoice_number_per_user(saved)
       THEN \* invoice.save() raises IntegrityError: nothing is inserted
            /\ response' = Response("create", user, NoPk, "POST", "error",
                                    post.invoice_number, {}, 0, "")
            /\ UNCHANGED <<invoices, line_items, nextPk>>
       ELSE IF InvoiceItemFormSet_is_valid(user, forms)
       THEN /\ invoices' = WithRow(invoices, pk, calculate_totals(invoice, items))
            /\ line_items' = WithRow(line_items, pk, items)
            /\ nextPk' = nextPk + 1
            /\ response' = Response("create", user, pk, "POST", "ok",
                                    post.invoice_number, {}, 0, "")
       ELSE \* invoice.delete(): the inserted row is removed again
            /\ nextPk' = nextPk + 1
            /\ response' = Response("create", user, NoPk, "POST", "invalid",
                                    post.invoice_number, {"line_items"}, 0, "")
            /\ UNCHANGED <<invoices, line_items>>

\* views.create_invoice
create_invoice(user, method, post, forms) ==
    /\ UNCHANGED <<inflight, clients, catalog, now>>
    /\ IF method # "POST"
       THEN /\ response' = Response("create", user, NoPk, method,
                                    "rendered", InvoiceForm_initial(user),
                                    {}, 0, "")
            /\ UNCHANGED <<invoices, line_items, nextPk>>
       ELSE IF ~InvoiceForm_is_valid(user, NoPk, post)
       THEN /\ response' = Response("create", user, NoPk, method, "invalid",
                                    post.invoice_number,
                                    InvoiceForm_errors(user, NoPk, post), 0, "")
            /\ UNCHANGED <<invoices, line_items, nextPk>>
       ELSE create_invoice_save(user, post, forms)

\* views.edit_invoice
edit_invoice(user, pk, method, post, forms) ==
    /\ UNCHANGED <<nextPk, inflight, clients, catalog, now>>
    /\ IF ~Found(user, pk)
       THEN /\ response' = Response("edit", user, pk, method, "not_found",
                                    "", {}, 0, "")
            /\ UNCHANGED <<invoices, line_items>>
       ELSE IF method # "POST"
       THEN /\ response' = Response("edit", user, pk, method, "rendered",
                                    "", {}, 0, "")
            /\ UNCHANGED <<invoices, line_items>>
       ELSE IF ~InvoiceForm_is_valid(user, pk, post)
       THEN /\ response' = Response("edit", user, pk, method, "invalid",
                                    post.invoice_number,
                                    InvoiceForm_errors(user, pk, post), 0, "")
            /\ UNCHANGED <<invoices, line_items>>
       ELSE LET invoice == UpdatedInvoice(invoices[pk], post)
                saved == WithRow(invoices, pk, invoice)
                items == InvoiceItemFormSet_save(forms)
            IN  IF ~unique_invoice_number_per_user(saved)
                THEN \* form.save() raises IntegrityError: nothing is updated
                     /\ response' = Response("edit", user, pk, method, "error",
                                             post.invoice_number, {}, 0, "")
                     /\ UNCHANGED <<invoices, line_items>>
                ELSE IF InvoiceItemFormSet_is_valid(user, forms)
                THEN /\ invoices' = WithRow(invoices, pk,
                                            calculate_totals(invoice, items))
                     /\ line_items' = WithRow(line_items, pk, items)
                     /\ response' = Response("edit", user, pk, method, "ok",
                                             post.invoice_number, {}, 0, "")
                ELSE \* form.save() has already stored the invoice fields
                     /\ invoices' = saved
                     /\ UNCHANGED line_items
                     /\ response' = Response("edit", user, pk, method,
                                             "invalid", post.invoice_number,
                                             {"line_items"}, 0, "")

\* InvoiceItem.invoice is a foreign key that cascades: the line items of a
\* deleted invoice are deleted with it
InvoiceItem_cascade(table, pk) == WithoutRow(table, pk)

\* a delete that does not wait for the confirmation to be posted
delete_invoice_any_method(user, pk, method) ==
    /\ UNCHANGED <<nextPk, inflight, clients, catalog, now>>
    /\ IF ~Found(user, pk)
       THEN /\ response' = Response("delete", user, pk, method, "not_found",
                                    "", {}, 0, "")
            /\ UNCHANGED <<invoices, line_items>>
       ELSE /\ invoices' = WithoutRow(invoices, pk)
            /\ line_items' = InvoiceItem_cascade(line_items, pk)
            /\ response' = Response("delete", user, pk, method, "ok", "", {},
                                    0, "")

\* views.delete_invoice
delete_invoice(user, pk, method) ==
    /\ UNCHANGED <<nextPk, inflight, clients, catalog, now>>
    /\ IF ~Found(user, pk)
       THEN /\ response' = Response("delete", user, pk, method, "not_found",
                                    "", {}, 0, "")
            /\ UNCHANGED <<invoices, line_items>>
       ELSE IF method # "POST"
       THEN /\ response' = Response("delete", user, pk, method, "rendered",
                                    "", {}, 0, "")
            /\ UNCHANGED <<invoices, line_items>>
       ELSE \* invoice.delete() cascades to the invoice's line items
            /\ invoices' = WithoutRow(invoices, pk)
            /\ line_items' = InvoiceItem_cascade(line_items, pk)
            /\ response' = Response("delete", user, pk, method, "ok", "", {},
                                    0, "")

\* a status change that takes any word for a status
change_invoice_status_unvalidated(user, pk, status) ==
    /\ UNCHANGED <<line_items, nextPk, inflight, clients, catalog, now>>
    /\ IF ~Found(user, pk)
       THEN /\ response' = Response("status", user, pk, "GET", "not_found",
                                    "", {}, 0, "")
            /\ UNCHANGED invoices
       ELSE /\ invoices' = [invoices EXCEPT ![pk].status = status]
            /\ response' = Response("status", user, pk, "GET",
                                    "ok", status, {}, 0, invoices[pk].status)

\* a status change that treats paid and canceled as final
change_invoice_status_guarded(user, pk, status) ==
    /\ UNCHANGED <<line_items, nextPk, inflight, clients, catalog, now>>
    /\ IF ~Found(user, pk)
       THEN /\ response' = Response("status", user, pk, "GET", "not_found",
                                    "", {}, 0, "")
            /\ UNCHANGED invoices
       ELSE IF status \notin STATUS_CHOICES
               \/ invoices[pk].status \in {"paid", "canceled"}
       THEN /\ response' = Response("status", user, pk, "GET",
                                    "invalid", status, {}, 0,
                                    invoices[pk].status)
            /\ UNCHANGED invoices
       ELSE /\ invoices' = [invoices EXCEPT ![pk].status = status]
            /\ response' = Response("status", user, pk, "GET",
                                    "ok", status, {}, 0, invoices[pk].status)

\* views.change_invoice_status
change_invoice_status(user, pk, status) ==
    /\ UNCHANGED <<line_items, nextPk, inflight, clients, catalog, now>>
    /\ IF ~Found(user, pk)
       THEN /\ response' = Response("status", user, pk, "GET", "not_found",
                                    "", {}, 0, "")
            /\ UNCHANGED invoices
       ELSE IF status \notin STATUS_CHOICES
       THEN /\ response' = Response("status", user, pk, "GET",
                                    "invalid", status, {}, 0,
                                    invoices[pk].status)
            /\ UNCHANGED invoices
       ELSE /\ invoices' = [invoices EXCEPT ![pk].status = status]
            /\ response' = Response("status", user, pk, "GET",
                                    "ok", status, {}, 0, invoices[pk].status)

\* a send that marks the invoice sent whatever its status was
send_invoice_email_always_sent(user, pk, method, form, attach_pdf, WEASYPRINT_INSTALLED, delivered) ==
    /\ UNCHANGED <<line_items, nextPk, inflight, clients, catalog, now>>
    /\ IF ~Found(user, pk)
       THEN /\ response' = Response("send", user, pk, method, "not_found",
                                    "", {}, 0, "")
            /\ UNCHANGED invoices
       ELSE IF method # "POST"
       THEN /\ response' = Response("send", user, pk, method, "rendered",
                                    "", {}, 0, invoices[pk].status)
            /\ UNCHANGED invoices
       ELSE IF ~SendInvoiceEmailForm_is_valid(form)
       THEN /\ response' = Response("send", user, pk, method, "invalid", "",
                                    {"send_form"}, 0, invoices[pk].status)
            /\ UNCHANGED invoices
       ELSE IF attach_pdf /\ ~WEASYPRINT_INSTALLED
       THEN /\ response' = Response("send", user, pk, method,
                                    "pdf_unavailable", "", {}, 0,
                                    invoices[pk].status)
            /\ UNCHANGED invoices
       ELSE IF ~delivered
       THEN /\ response' = Response("send", user, pk, method, "send_failed",
                                    "", {}, 0, invoices[pk].status)
            /\ UNCHANGED invoices
       ELSE /\ response' = Response("send", user, pk, method, "ok", "", {}, 1,
                                    invoices[pk].status)
            /\ invoices' = [invoices EXCEPT ![pk].status = "sent"]

\* a send that marks a draft sent as soon as the form is valid, before the
\* attachment is made and the message is handed to the mail backend
send_invoice_email_marks_first(user, pk, method, form, attach_pdf, WEASYPRINT_INSTALLED, delivered) ==
    /\ UNCHANGED <<line_items, nextPk, inflight, clients, catalog, now>>
    /\ IF ~Found(user, pk)
       THEN /\ response' = Response("send", user, pk, method, "not_found",
                                    "", {}, 0, "")
            /\ UNCHANGED invoices
       ELSE IF method # "POST"
       THEN /\ response' = Response("send", user, pk, method, "rendered",
                                    "", {}, 0, invoices[pk].status)
            /\ UNCHANGED invoices
       ELSE IF ~SendInvoiceEmailForm_is_valid(form)
       THEN /\ response' = Response("send", user, pk, method, "invalid", "",
                                    {"send_form"}, 0, invoices[pk].status)
            /\ UNCHANGED invoices
       ELSE /\ invoices' = IF invoices[pk].status = "draft"
                           THEN [invoices EXCEPT ![pk].status = "sent"]
                           ELSE invoices
            /\ response' = Response("send", user, pk, method,
                                    IF attach_pdf /\ ~WEASYPRINT_INSTALLED
                                    THEN "pdf_unavailable"
                                    ELSE IF ~delivered THEN "send_failed"
                                    ELSE "ok",
                                    "", {},
                                    IF (attach_pdf /\ ~WEASYPRINT_INSTALLED)
                                       \/ ~delivered THEN 0 ELSE 1,
                                    invoices[pk].status)

\* views.send_invoice_email; form is the SendInvoiceEmailForm submitted,
\* WEASYPRINT_INSTALLED is the module flag the request reads, delivered is
\* whether email.send(fail_silently=False) returns normally
send_invoice_email(user, pk, method, form, attach_pdf, WEASYPRINT_INSTALLED, delivered) ==
    LET Posted(outcome, errors, mails) ==
            [Response("send", user, pk, method, outcome, "", errors, mails,
                      invoices[pk].status)
                EXCEPT !.form = form]
    IN
    /\ UNCHANGED <<line_items, nextPk, inflight, clients, catalog, now>>
    /\ IF ~Found(user, pk)
       THEN /\ response' = Response("send", user, pk, method, "not_found",
                                    "", {}, 0, "")
            /\ UNCHANGED invoices
       ELSE IF method # "POST"
       THEN /\ response' = Response("send", user, pk, method, "rendered",
                                    "", {}, 0, invoices[pk].status)
            /\ UNCHANGED invoices
       ELSE IF ~SendInvoiceEmailForm_is_valid(form)
       THEN /\ response' = Posted("invalid", {"send_form"}, 0)
            /\ UNCHANGED invoices
       ELSE IF attach_pdf /\ ~WEASYPRINT_INSTALLED
       THEN /\ response' = Posted("pdf_unavailable", {}, 0)
            /\ UNCHANGED invoices
       ELSE IF ~delivered
       THEN /\ response' = Posted("send_failed", {}, 0)
            /\ UNCHANGED invoices
       ELSE /\ response' = [Posted("ok", {}, 1) EXCEPT !.message =
                                EmailMessage(split_emails(form.cc).parts,
                                             split_emails(form.bcc).parts)]
            /\ invoices' = IF invoices[pk].status = "draft"
                           THEN [invoices EXCEPT ![pk].status = "sent"]
                           ELSE invoices

(***************************************************************************)
(* Requests.  A submission is drawn from a set of well-formed posts and a  *)
(* few malformed ones: another owner's client, no client, no number, a     *)
(* status outside the choices.                                             *)
(***************************************************************************)
Post(client, number, status, tax_percent, discount_percent) ==
    [client |-> client, invoice_number |-> number, status |-> status,
     due_date |-> initial_due_date,
     tax_percent |-> tax_percent, discount_percent |-> discount_percent]

\* rates are pairs <<tax_percent, discount_percent>>
GoodPosts(user, numbers, statuses, rates) ==
    {Post(c, n, s, r[1], r[2]) : c \in ClientsOf(user), n \in numbers,
                                 s \in statuses, r \in rates}

BadPosts(user, rates) ==
    {Post(c, "INV-1", "draft", r[1], r[2]) :
        c \in (Clients \ ClientsOf(user)) \cup {NoClient}, r \in rates}
    \cup {Post(c, "", "draft", r[1], r[2]) : c \in ClientsOf(user), r \in rates}
    \cup {Post(c, "INV-1", "invalid", r[1], r[2]) :
        c \in ClientsOf(user), r \in rates}

\* a line form that selects no catalog item; valid tells whether its
\* description, quantity and unit price validate
LineForm(valid, delete, quantity, unit_price) ==
    [valid |-> valid, DELETE |-> delete, item |-> NoItem,
     quantity |-> quantity, unit_price |-> unit_price]

\* a line form of 1 x 1000.00 that selects the catalog item `item`
ItemLineForm(item) == [LineForm(TRUE, FALSE, 100, 100000) EXCEPT !.item = item]

\* formsets over the line forms lf, one form per stored line item first
Formsets(initial, lf) ==
    UNION {[1..n -> lf] : n \in initial..MaxLines}

StoredLines(pk) == IF pk \in DOMAIN line_items THEN Len(line_items[pk]) ELSE 0

NoPost == Post(NoClient, "", "draft", 0, 0)

\* a well-formed post with every formset, a malformed post with one formset
Submissions(user, numbers, statuses, rates, formsets) ==
    (GoodPosts(user, numbers, statuses, rates) \X formsets)
    \cup (BadPosts(user, rates) \X {<<>>})

(***************************************************************************)
(* Spec: status and email.  Two owners, each using one invoice number;     *)
(* invoices carry one line item of 1 x 1000.00 at 10% tax and 5% discount. *)
(***************************************************************************)
SpecNumbers == {"INV-1"}

FormStatuses == {"draft", "paid"}

\* 10% tax, 5% discount
Rates == {<<1000, 500>>}

Line == LineForm(TRUE, FALSE, 100, 100000)

DeletedLine == LineForm(TRUE, TRUE, 100, 100000)

\* formsets submitted for an invoice with `initial` stored line items
SpecFormsets(initial) ==
    IF initial = 0 THEN {<<>>, <<Line>>, <<DeletedLine>>}
    ELSE {<<Line>>, <<DeletedLine>>}

SpecSubmissions(user, initial) ==
    Submissions(user, SpecNumbers, FormStatuses, Rates, SpecFormsets(initial))

\* <<form_valid, attach_pdf, WEASYPRINT_INSTALLED, delivered>>, without the
\* inputs the view does not get to read
SendInputs ==
    {in \in BOOLEAN \X BOOLEAN \X BOOLEAN \X BOOLEAN :
        /\ ~in[1] => (~in[2] /\ ~in[3] /\ ~in[4])
        /\ (in[2] /\ ~in[3]) => ~in[4]}

\* the clients and catalog items the users have when the requests begin
InitialClients == [c \in Clients |-> [user |-> ClientOwner[c], name |-> "old"]]

InitialItems == [i \in Items |-> [user |-> ItemOwner[i], name |-> "old"]]

Init ==
    /\ invoices = <<>>
    /\ line_items = <<>>
    /\ nextPk = 1
    /\ response = NoResponse
    /\ inflight = NoRequest
    /\ clients = InitialClients
    /\ catalog = InitialItems
    /\ now = ThisYear

CreateInvoice ==
    \/ \E user \in Users : create_invoice(user, "GET", NoPost, <<>>)
    \/ \E user \in Users : \E sub \in SpecSubmissions(user, 0) :
        create_invoice(user, "POST", sub[1], sub[2])

EditInvoice ==
    \/ \E user \in Users, pk \in Pks : edit_invoice(user, pk, "GET", NoPost, <<>>)
    \/ \E user \in Users, pk \in Pks :
        /\ ~Found(user, pk)
        /\ edit_invoice(user, pk, "POST", NoPost, <<>>)
    \/ \E user \in Users, pk \in Pks :
        /\ Found(user, pk)
        /\ \E sub \in SpecSubmissions(user, StoredLines(pk)) :
            edit_invoice(user, pk, "POST", sub[1], sub[2])

DeleteInvoice ==
    \E user \in Users, pk \in Pks, method \in Methods :
        delete_invoice(user, pk, method)

ChangeInvoiceStatus ==
    \/ \E user \in Users, pk \in Pks :
        /\ ~Found(user, pk)
        /\ change_invoice_status(user, pk, "paid")
    \/ \E user \in Users, pk \in Pks, status \in StatusInputs :
        /\ Found(user, pk)
        /\ change_invoice_status(user, pk, status)

SendInvoiceEmail ==
    \/ \E user \in Users, pk \in Pks :
        send_invoice_email(user, pk, "GET", PlainForm(FALSE), FALSE, FALSE,
                           FALSE)
    \/ \E user \in Users, pk \in Pks :
        /\ ~Found(user, pk)
        /\ send_invoice_email(user, pk, "POST", PlainForm(TRUE), FALSE, FALSE,
                              TRUE)
    \/ \E user \in Users, pk \in Pks, input \in SendInputs :
        /\ Found(user, pk)
        /\ send_invoice_email(user, pk, "POST", PlainForm(input[1]), input[2], input[3],
                              input[4])

Next ==
    \/ CreateInvoice
    \/ EditInvoice
    \/ DeleteInvoice
    \/ ChangeInvoiceStatus
    \/ SendInvoiceEmail

Spec == Init /\ [][Next]_vars

(***************************************************************************)
(* SpecTotals: one owner's invoice under varying rates and line items.     *)
(* The invoice sequence has advanced so that one more invoice can be       *)
(* created.                                                                *)
(***************************************************************************)
TotalsUsers == {"alice"}

TotalsNumbers == {"INV-1"}

TotalsFormStatuses == {"draft"}

TotalsStatusInputs == {"paid", "invalid"}

\* 10% tax with 5% discount, 12.5% tax with no discount
TotalsRates == {<<1000, 500>>, <<1250, 0>>}

\* 1 x 1000.00, 0.5 x 0.07, 0 x 1000.00, 1 x 0.00, a form that fails
\* validation, a form marked for deletion
TotalsForms ==
    {LineForm(TRUE, FALSE, 100, 100000), LineForm(TRUE, FALSE, 50, 7),
     LineForm(TRUE, FALSE, 0, 100000), LineForm(TRUE, FALSE, 100, 0),
     LineForm(FALSE, FALSE, 100, 100000), LineForm(TRUE, TRUE, 100, 100000)}

TotalsSubmissions(user, initial) ==
    Submissions(user, TotalsNumbers, TotalsFormStatuses, TotalsRates,
                Formsets(initial, TotalsForms))

InitTotals ==
    /\ invoices = <<>>
    /\ line_items = <<>>
    /\ nextPk = MaxInvoices
    /\ response = NoResponse
    /\ inflight = NoRequest
    /\ clients = InitialClients
    /\ catalog = InitialItems
    /\ now = ThisYear

TotalsCreate ==
    \E user \in TotalsUsers : \E sub \in TotalsSubmissions(user, 0) :
        create_invoice(user, "POST", sub[1], sub[2])

TotalsEdit ==
    \E user \in TotalsUsers, pk \in Pks :
        /\ Found(user, pk)
        /\ \E sub \in TotalsSubmissions(user, StoredLines(pk)) :
            edit_invoice(user, pk, "POST", sub[1], sub[2])

TotalsDelete ==
    \E user \in TotalsUsers, pk \in Pks :
        Found(user, pk) /\ delete_invoice(user, pk, "POST")

TotalsChangeStatus ==
    \E user \in TotalsUsers, pk \in Pks, status \in TotalsStatusInputs :
        Found(user, pk) /\ change_invoice_status(user, pk, status)

TotalsSend ==
    \E user \in TotalsUsers, pk \in Pks, delivered \in BOOLEAN :
        /\ Found(user, pk)
        /\ send_invoice_email(user, pk, "POST", PlainForm(TRUE), FALSE, FALSE,
                              delivered)

NextTotals ==
    \/ TotalsCreate
    \/ TotalsEdit
    \/ TotalsDelete
    \/ TotalsChangeStatus
    \/ TotalsSend

SpecTotals == InitTotals /\ [][NextTotals]_vars

(***************************************************************************)
(* SpecRace: create, edit and delete requests of two owners, where one     *)
(* create_invoice request may have validated its form and not yet saved    *)
(* while other requests are handled.                                       *)
(***************************************************************************)
RaceSubmissions(user, initial) ==
    Submissions(user, Numbers, {"draft"}, Rates, SpecFormsets(initial))

\* views.create_invoice up to form.is_valid() returning True
create_invoice_is_valid(user, post, forms) ==
    /\ inflight = NoRequest
    /\ nextPk <= MaxInvoices
    /\ InvoiceForm_is_valid(user, NoPk, post)
    /\ inflight' = Request(user, post, forms)
    /\ UNCHANGED <<invoices, line_items, nextPk, response, clients, catalog,
                   now>>

RaceCreate ==
    \E user \in Users : \E sub \in RaceSubmissions(user, 0) :
        create_invoice(user, "POST", sub[1], sub[2])

RaceCreateIsValid ==
    \E user \in Users : \E sub \in RaceSubmissions(user, 0) :
        create_invoice_is_valid(user, sub[1], sub[2])

RaceCreateSave ==
    /\ inflight # NoRequest
    /\ create_invoice_save(inflight.user, inflight.post, inflight.forms)
    /\ inflight' = NoRequest

RaceEdit ==
    \E user \in Users, pk \in Pks :
        /\ Found(user, pk)
        /\ \E sub \in RaceSubmissions(user, StoredLines(pk)) :
            edit_invoice(user, pk, "POST", sub[1], sub[2])

RaceDelete ==
    \E user \in Users, pk \in Pks :
        Found(user, pk) /\ delete_invoice(user, pk, "POST")

NextRace ==
    \/ RaceCreate
    \/ RaceCreateIsValid
    \/ RaceCreateSave
    \/ RaceEdit
    \/ RaceDelete

SpecRace == Init /\ [][NextRace]_vars

(***************************************************************************)
(* SpecCalc: the Invoice and InvoiceItem models used directly, as the      *)
(* calculation tests use them: an invoice is created with some rates, line *)
(* items are created for it with a line_total the caller chooses, and      *)
(* calculate_totals() followed by save() is run any number of times.       *)
(***************************************************************************)
\* 10% and 5%; 12.5% and none; none and 5%
CalcRates == {<<1000, 500>>, <<1250, 0>>, <<0, 500>>}

\* 1, 0.5 and 0
CalcQuantities == {100, 50, 0}

\* 1000.00, 0.07 and 0.00
CalcUnitPrices == {100000, 7, 0}

\* line_total values a caller passes to InvoiceItem.objects.create
CalcGivenTotals == {0, 100000}

InitCalc ==
    /\ now = ThisYear
    /\ \E rates \in CalcRates :
        invoices = <<NewInvoice("alice", Post("c_alice", "INV-1", "draft",
                                              rates[1], rates[2]))>>
    /\ line_items = <<<<>>>>
    /\ nextPk = 2
    /\ response = NoResponse
    /\ inflight = NoRequest
    /\ clients = InitialClients
    /\ catalog = InitialItems

\* InvoiceItem.objects.create(invoice=..., quantity=..., unit_price=...,
\* line_total=...)
InvoiceItem_create(pk, quantity, unit_price, line_total) ==
    /\ pk \in DOMAIN invoices
    /\ Len(line_items[pk]) < MaxLines
    /\ line_items' = [line_items EXCEPT ![pk] =
            Append(@, InvoiceItem_save(NoItem, quantity, unit_price,
                                        line_total))]
    /\ response' = Response("item_create", invoices[pk].user, pk, "", "ok",
                            "", {}, 0, "")
    /\ UNCHANGED <<invoices, nextPk, inflight, clients, catalog, now>>

\* invoice.calculate_totals(); invoice.save(); the response tells a run that
\* directly follows a run on the same invoice ("again") from any other
Invoice_calculate_totals(pk) ==
    /\ pk \in DOMAIN invoices
    /\ invoices' = [invoices EXCEPT ![pk] = calculate_totals(@, line_items[pk])]
    /\ response' = Response("calculate_totals", invoices[pk].user, pk, "", "ok",
                            IF response.op = "calculate_totals"
                               /\ response.pk = pk
                            THEN "again" ELSE "first",
                            {}, 0, "")
    /\ UNCHANGED <<line_items, nextPk, inflight, clients, catalog, now>>

CalcItemCreate ==
    \E pk \in Pks, quantity \in CalcQuantities, unit_price \in CalcUnitPrices,
       line_total \in CalcGivenTotals :
        InvoiceItem_create(pk, quantity, unit_price, line_total)

CalcTotals == \E pk \in Pks : Invoice_calculate_totals(pk)

NextCalc ==
    \/ CalcItemCreate
    \/ CalcTotals

SpecCalc == InitCalc /\ [][NextCalc]_vars

(***************************************************************************)
(* Pages of one record and the client and catalog item views.  The class   *)
(* based views look the record up in get_queryset(), which is filtered by  *)
(* the requesting user; a record outside it is answered with 404.  arg is  *)
(* the client or item the request names.                                   *)
(***************************************************************************)
\* Client.objects.filter(user=user) holds client c
FoundClient(user, c) == c \in DOMAIN clients /\ clients[c].user = user

\* Item.objects.filter(user=user) / get_object_or_404(Item, pk=pk, user=user)
FoundItem(user, i) == i \in DOMAIN catalog /\ catalog[i].user = user

\* the invoices that reference client c, client.invoices.all()
InvoicesOfClient(c) == {pk \in DOMAIN invoices : invoices[pk].client = c}

\* the catalog item i is selected by a stored line item
ItemInUse(i) ==
    \E pk \in DOMAIN line_items : \E n \in 1..Len(line_items[pk]) :
        line_items[pk][n].item = i

\* primary keys of a client and a catalog item created during the run
NewClient == "c_new"

NewItem == "i_new"

\* views.InvoiceDetailView
InvoiceDetailView(user, pk) ==
    /\ response' = Response("detail", user, pk, "GET",
                            IF Found(user, pk) THEN "rendered"
                            ELSE "not_found", "", {}, 0, "")
    /\ UNCHANGED <<invoices, line_items, nextPk, inflight, clients, catalog,
                   now>>

\* views.generate_invoice_pdf
generate_invoice_pdf(user, pk, WEASYPRINT_INSTALLED) ==
    /\ response' = Response("pdf", user, pk, "GET",
                            IF ~Found(user, pk) THEN "not_found"
                            ELSE IF ~WEASYPRINT_INSTALLED
                            THEN "pdf_unavailable" ELSE "ok", "", {}, 0, "")
    /\ UNCHANGED <<invoices, line_items, nextPk, inflight, clients, catalog,
                   now>>

\* a client list that is not filtered by the requesting user
ClientListView_all(user) ==
    /\ response' = Rendered("client_list", user, "",
                            [object_list |-> DOMAIN clients])
    /\ UNCHANGED <<invoices, line_items, nextPk, inflight, clients, catalog,
                   now>>

\* views.ClientListView
ClientListView(user) ==
    /\ response' = Rendered("client_list", user, "",
                            [object_list |-> ClientsOf(user)])
    /\ UNCHANGED <<invoices, line_items, nextPk, inflight, clients, catalog,
                   now>>

\* views.ClientDetailView
ClientDetailView(user, c) ==
    /\ response' = IF FoundClient(user, c)
                   THEN Rendered("client_detail", user, c,
                                 [object_list |-> InvoicesOfClient(c)])
                   ELSE Response("client_detail", user, NoPk, "GET",
                                 "not_found", c, {}, 0, "")
    /\ UNCHANGED <<invoices, line_items, nextPk, inflight, clients, catalog,
                   now>>

\* views.ClientCreateView; form_valid sets form.instance.user
ClientCreateView(user, method, valid, name) ==
    /\ UNCHANGED <<invoices, line_items, nextPk, inflight, catalog, now>>
    /\ IF method # "POST"
       THEN /\ response' = Response("client_create", user, NoPk, method,
                                    "rendered", "", {}, 0, "")
            /\ UNCHANGED clients
       ELSE IF ~valid
       THEN /\ response' = Response("client_create", user, NoPk, method,
                                    "invalid", "", {"client_form"}, 0, "")
            /\ UNCHANGED clients
       ELSE /\ NewClient \notin DOMAIN clients
            /\ clients' = WithRow(clients, NewClient,
                                  [user |-> user, name |-> name])
            /\ response' = Response("client_create", user, NoPk, method,
                                    "ok", NewClient, {}, 0, "")

\* views.ClientUpdateView
ClientUpdateView(user, c, method, valid, name) ==
    /\ UNCHANGED <<invoices, line_items, nextPk, inflight, catalog, now>>
    /\ IF ~FoundClient(user, c)
       THEN /\ response' = Response("client_update", user, NoPk, method,
                                    "not_found", c, {}, 0, "")
            /\ UNCHANGED clients
       ELSE IF method # "POST"
       THEN /\ response' = Response("client_update", user, NoPk, method,
                                    "rendered", c, {}, 0, "")
            /\ UNCHANGED clients
       ELSE IF ~valid
       THEN /\ response' = Response("client_update", user, NoPk, method,
                                    "invalid", c, {"client_form"}, 0, "")
            /\ UNCHANGED clients
       ELSE /\ clients' = [clients EXCEPT ![c].name = name]
            /\ response' = Response("client_update", user, NoPk, method,
                                    "ok", c, {}, 0, "")

\* views.ClientDeleteView.  What becomes of the invoices of a deleted
\* client is decided by the Invoice model; a client is deleted here only
\* once no invoice references it.
ClientDeleteView(user, c, method) ==
    /\ UNCHANGED <<invoices, line_items, nextPk, inflight, catalog, now>>
    /\ IF ~FoundClient(user, c)
       THEN /\ response' = Response("client_delete", user, NoPk, method,
                                    "not_found", c, {}, 0, "")
            /\ UNCHANGED clients
       ELSE IF method # "POST"
       THEN /\ response' = Response("client_delete", user, NoPk, method,
                                    "rendered", c, {}, 0, "")
            /\ UNCHANGED clients
       ELSE /\ InvoicesOfClient(c) = {}
            /\ clients' = WithoutRow(clients, c)
            /\ response' = Response("client_delete", user, NoPk, method,
                                    "ok", c, {}, 0, "")

\* views.ItemListView
ItemListView(user) ==
    /\ response' = Rendered("item_list", user, "",
                            [object_list |-> ItemsOf(user)])
    /\ UNCHANGED <<invoices, line_items, nextPk, inflight, clients, catalog,
                   now>>

\* views.ItemCreateView; form_valid sets form.instance.user
ItemCreateView(user, method, valid, name) ==
    /\ UNCHANGED <<invoices, line_items, nextPk, inflight, clients, now>>
    /\ IF method # "POST"
       THEN /\ response' = Response("item_create", user, NoPk, method,
                                    "rendered", "", {}, 0, "")
            /\ UNCHANGED catalog
       ELSE IF ~valid
       THEN /\ response' = Response("item_create", user, NoPk, method,
                                    "invalid", "", {"item_form"}, 0, "")
            /\ UNCHANGED catalog
       ELSE /\ NewItem \notin DOMAIN catalog
            /\ catalog' = WithRow(catalog, NewItem,
                                  [user |-> user, name |-> name])
            /\ response' = Response("item_create", user, NoPk, method,
                                    "ok", NewItem, {}, 0, "")

\* views.ItemUpdateView
ItemUpdateView(user, i, method, valid, name) ==
    /\ UNCHANGED <<invoices, line_items, nextPk, inflight, clients, now>>
    /\ IF ~FoundItem(user, i)
       THEN /\ response' = Response("item_update", user, NoPk, method,
                                    "not_found", i, {}, 0, "")
            /\ UNCHANGED catalog
       ELSE IF method # "POST"
       THEN /\ response' = Response("item_update", user, NoPk, method,
                                    "rendered", i, {}, 0, "")
            /\ UNCHANGED catalog
       ELSE IF ~valid
       THEN /\ response' = Response("item_update", user, NoPk, method,
                                    "invalid", i, {"item_form"}, 0, "")
            /\ UNCHANGED catalog
       ELSE /\ catalog' = [catalog EXCEPT ![i].name = name]
            /\ response' = Response("item_update", user, NoPk, method,
                                    "ok", i, {}, 0, "")

\* views.ItemDeleteView.  What becomes of the line items that select a
\* deleted catalog item is decided by the InvoiceItem model; an item is
\* deleted here only once no line item selects it.
ItemDeleteView(user, i, method) ==
    /\ UNCHANGED <<invoices, line_items, nextPk, inflight, clients, now>>
    /\ IF ~FoundItem(user, i)
       THEN /\ response' = Response("item_delete", user, NoPk, method,
                                    "not_found", i, {}, 0, "")
            /\ UNCHANGED catalog
       ELSE IF method # "POST"
       THEN /\ response' = Response("item_delete", user, NoPk, method,
                                    "rendered", i, {}, 0, "")
            /\ UNCHANGED catalog
       ELSE /\ ~ItemInUse(i)
            /\ catalog' = WithoutRow(catalog, i)
            /\ response' = Response("item_delete", user, NoPk, method,
                                    "ok", i, {}, 0, "")

\* views.item_detail_api
item_detail_api(user, i) ==
    /\ response' = Response("item_api", user, NoPk, "GET",
                            IF FoundItem(user, i) THEN "ok" ELSE "not_found",
                            i, {}, 0, "")
    /\ UNCHANGED <<invoices, line_items, nextPk, inflight, clients, catalog,
                   now>>

(***************************************************************************)
(* Statistics and list pages.  They read the tables and change nothing;    *)
(* the response carries the context the page is rendered with.  today is   *)
(* the day the request is made, timezone.now().date().                     *)
(***************************************************************************)
\* queryset.filter(status=status) on the invoices pks
WithStatus(pks, status) == {pk \in pks : invoices[pk].status = status}

\* an exclusion that drops the canceled invoices as well
WithoutStatus_nor_canceled(pks, status) ==
    {pk \in pks : invoices[pk].status \notin {status, "canceled"}}

\* queryset.exclude(status=status) on the invoices pks
WithoutStatus(pks, status) == {pk \in pks : invoices[pk].status # status}

RECURSIVE SumTotal(_)
\* queryset.aggregate(Sum('total'))['total__sum'] or 0
SumTotal(pks) ==
    IF pks = {} THEN 0
    ELSE LET pk == CHOOSE p \in pks : TRUE
         IN  invoices[pk].total + SumTotal(pks \ {pk})

\* a rate that drops the fraction of the percentage
payment_rate_floor(paid_invoices, total_invoices) ==
    IF total_invoices > 0 THEN (paid_invoices * 100) \div total_invoices ELSE 0

\* round((paid_invoices * 100) / total_invoices): Python rounds a float to
\* the nearest integer, a tie to the even one; 0 without invoices
payment_rate(paid_invoices, total_invoices) ==
    IF total_invoices > 0
    THEN LET q == (paid_invoices * 100) \div total_invoices
             r == (paid_invoices * 100) % total_invoices
         IN  IF 2 * r < total_invoices THEN q
             ELSE IF 2 * r > total_invoices THEN q + 1
             ELSE IF q % 2 = 0 THEN q ELSE q + 1
    ELSE 0

\* a count of the invoices past their due date whatever their status
overdue_invoices_any_status(pks, today) ==
    {pk \in pks : invoices[pk].due_date < today}

\* invoices.filter(due_date__lt=today, status__in=['sent', 'draft'])
overdue_invoices(pks, today) ==
    {pk \in pks : /\ invoices[pk].due_date < today
                  /\ invoices[pk].status \in {"sent", "draft"}}

\* core.views.dashboard
dashboard(user, today) ==
    /\ LET mine == InvoicesOf(user)
           total_invoices == Cardinality(mine)
           paid_invoices == Cardinality(WithStatus(mine, "paid"))
       IN  response' = Rendered("dashboard", user, "",
            [today |-> today,
             total_invoices |-> total_invoices,
             paid_invoices |-> paid_invoices,
             unpaid_invoices |-> Cardinality(WithoutStatus(mine, "paid")),
             overdue_invoices |-> Cardinality(overdue_invoices(mine, today)),
             total_revenue |-> SumTotal(WithStatus(mine, "paid")),
             total_outstanding |-> SumTotal(WithoutStatus(mine, "paid")),
             total_clients |-> Cardinality(ClientsOf(user)),
             payment_rate |-> payment_rate(paid_invoices, total_invoices)])
    /\ UNCHANGED <<invoices, line_items, nextPk, inflight, clients, catalog,
                   now>>

\* the statistics InvoiceListView.get_context_data and invoice_dashboard
\* both compute from Invoice.objects.filter(user=request.user)
InvoiceStats(mine) ==
    [total_invoices |-> Cardinality(mine),
     draft_count |-> Cardinality(WithStatus(mine, "draft")),
     sent_count |-> Cardinality(WithStatus(mine, "sent")),
     paid_count |-> Cardinality(WithStatus(mine, "paid")),
     overdue_count |-> Cardinality(WithStatus(mine, "overdue")),
     total_amount |-> SumTotal(mine),
     total_paid |-> SumTotal(WithStatus(mine, "paid")),
     total_outstanding |-> SumTotal(WithoutStatus(mine, "paid"))]

\* views.invoice_dashboard; the view does not read the date
invoice_dashboard(user, today) ==
    /\ LET stats == InvoiceStats(InvoicesOf(user))
       IN  response' = Rendered("invoice_dashboard", user, "",
            [today |-> today,
             total_invoices |-> stats.total_invoices,
             draft_count |-> stats.draft_count,
             sent_count |-> stats.sent_count,
             paid_count |-> stats.paid_count,
             overdue_count |-> stats.overdue_count,
             total_amount |-> stats.total_amount,
             total_paid |-> stats.total_paid,
             total_outstanding |-> stats.total_outstanding])
    /\ UNCHANGED <<invoices, line_items, nextPk, inflight, clients, catalog,
                   now>>

\* a list that takes ?status= for the statistics as well
InvoiceListView_filtered_stats(user, status) ==
    /\ LET mine == InvoicesOf(user)
           object_list == IF status # "" THEN WithStatus(mine, status)
                          ELSE mine
           stats == InvoiceStats(object_list)
       IN  response' = Rendered("invoice_list", user, status,
            [object_list |-> object_list,
             total_invoices |-> stats.total_invoices,
             draft_count |-> stats.draft_count,
             sent_count |-> stats.sent_count,
             paid_count |-> stats.paid_count,
             overdue_count |-> stats.overdue_count,
             total_amount |-> stats.total_amount,
             total_paid |-> stats.total_paid,
             total_outstanding |-> stats.total_outstanding])
    /\ UNCHANGED <<invoices, line_items, nextPk, inflight, clients, catalog,
                   now>>

\* views.InvoiceListView; status is request.GET.get('status'), "" when the
\* parameter is absent or empty
InvoiceListView(user, status) ==
    /\ LET mine == InvoicesOf(user)
           object_list == IF status # "" THEN WithStatus(mine, status)
                          ELSE mine
           stats == InvoiceStats(mine)
       IN  response' = Rendered("invoice_list", user, status,
            [object_list |-> object_list,
             total_invoices |-> stats.total_invoices,
             draft_count |-> stats.draft_count,
             sent_count |-> stats.sent_count,
             paid_count |-> stats.paid_count,
             overdue_count |-> stats.overdue_count,
             total_amount |-> stats.total_amount,
             total_paid |-> stats.total_paid,
             total_outstanding |-> stats.total_outstanding])
    /\ UNCHANGED <<invoices, line_items, nextPk, inflight, clients, catalog,
                   now>>

\* invoice numbers the statistics tests give the invoices they create
TestNumbers == <<"INV-1", "INV-2", "INV-3", "INV-4", "INV-5", "INV-6">>

\* create_invoice_with_total of the statistics tests: an invoice with one
\* line item of 1 x total_amount, then calculate_totals() and save()
create_invoice_with_total(user, client, invoice_number, status, total_amount, due_date, limit) ==
    /\ nextPk <= limit
    /\ LET created == [NewInvoice(user, Post(client, invoice_number, status,
                                             0, 0))
                          EXCEPT !.due_date = due_date]
           items == <<InvoiceItem_save(NoItem, 100, total_amount,
                                       total_amount)>>
       IN  /\ unique_invoice_number_per_user(WithRow(invoices, nextPk, created))
           /\ invoices' = WithRow(invoices, nextPk,
                                  calculate_totals(created, items))
           /\ line_items' = WithRow(line_items, nextPk, items)
    /\ response' = Response("create_invoice_with_total", user, nextPk, "",
                            "ok", invoice_number, {}, 0, "")
    /\ nextPk' = nextPk + 1
    /\ UNCHANGED <<inflight, clients, catalog, now>>

(***************************************************************************)
(* SpecDash: invoices of every status, due before or on the day of the     *)
(* request, are created as the statistics tests create them, and the two   *)
(* dashboards and the invoice list are requested.                          *)
(***************************************************************************)
\* days on which requests are made and on which the invoices fall due
DashDays == {1, 2}

\* 1000.00
DashTotals == {100000}

\* the ?status= values of the invoice list
ListFilters == {"", "draft", "paid", "overdue"}

InitDash == Init

DashCreate ==
    \E user \in Users, status \in STATUS_CHOICES, due_date \in DashDays, total_amount \in DashTotals :
        \E client \in ClientsOf(user) :
            /\ nextPk <= Len(TestNumbers)
            /\ create_invoice_with_total(user, client, TestNumbers[nextPk], status, total_amount, due_date, MaxInvoices)

DashDashboard == \E user \in Users, today \in DashDays : dashboard(user, today)

DashInvoiceDashboard == \E user \in Users, today \in DashDays : invoice_dashboard(user, today)

DashInvoiceList == \E user \in Users, status \in ListFilters : InvoiceListView(user, status)

NextDash ==
    \/ DashCreate
    \/ DashDashboard
    \/ DashInvoiceDashboard
    \/ DashInvoiceList

SpecDash == InitDash /\ [][NextDash]_vars

(***************************************************************************)
(* SpecRevenue: invoices of every status and of two different totals are   *)
(* created for both users and the core dashboard is requested.             *)
(***************************************************************************)
\* 1000.00 and 0.04
RevenueTotals == {100000, 4}

\* the day of the requests
RevenueDays == {2}

RevenueCreate ==
    \E user \in Users, status \in STATUS_CHOICES, total_amount \in RevenueTotals :
        \E client \in ClientsOf(user) :
            /\ nextPk <= Len(TestNumbers)
            /\ create_invoice_with_total(user, client, TestNumbers[nextPk], status, total_amount, initial_due_date, MaxInvoices)

RevenueDashboard == \E user \in Users, today \in RevenueDays : dashboard(user, today)

NextRevenue ==
    \/ RevenueCreate
    \/ RevenueDashboard

SpecRevenue == Init /\ [][NextRevenue]_vars

(***************************************************************************)
(* SpecRate: one user collects up to MaxRateInvoices invoices, paid or     *)
(* not, and either user requests the core dashboard.                       *)
(***************************************************************************)
RateStatuses == {"paid", "sent", "draft"}

RateCreate ==
    \E user \in {"alice"}, status \in RateStatuses, total_amount \in DashTotals :
        \E client \in ClientsOf(user) :
            /\ nextPk <= Len(TestNumbers)
            /\ create_invoice_with_total(user, client, TestNumbers[nextPk], status, total_amount, initial_due_date, MaxRateInvoices)

RateDashboard == \E user \in Users, today \in RevenueDays : dashboard(user, today)

NextRate ==
    \/ RateCreate
    \/ RateDashboard

SpecRate == Init /\ [][NextRate]_vars

(***************************************************************************)
(* SpecOwners: both users request every page of every invoice, client and  *)
(* catalog item, their own and the other user's.  Both create invoices for *)
(* their client; alice renames and deletes her client and catalog item,    *)
(* bob keeps his as they are.                                              *)
(***************************************************************************)
\* the user whose clients and catalog items change
OwnersActive == {"alice"}

\* one line of 1 x 1000.00 that selects a catalog item of the user, or no
\* item once the user has none
OwnersFormsets(user) ==
    IF ItemsOf(user) = {} THEN {<<Line>>}
    ELSE {<<ItemLineForm(i)>> : i \in ItemsOf(user)}

OwnersSubmissions(user) ==
    GoodPosts(user, SpecNumbers, {"draft"}, Rates) \X OwnersFormsets(user)

NextOwners ==
    \/ \E user \in Users : \E sub \in OwnersSubmissions(user) :
           create_invoice(user, "POST", sub[1], sub[2])
    \/ \/ \E user \in Users, pk \in Pks :
           /\ ~Found(user, pk)
           /\ edit_invoice(user, pk, "POST", NoPost, <<>>)
       \/ \E user \in Users, pk \in Pks :
           /\ Found(user, pk)
           /\ \E sub \in OwnersSubmissions(user) :
               edit_invoice(user, pk, "POST", sub[1], sub[2])
    \/ \E user \in Users, pk \in Pks, method \in Methods :
           delete_invoice(user, pk, method)
    \/ \E user \in Users, pk \in Pks : change_invoice_status(user, pk, "paid")
    \/ \E user \in Users, pk \in Pks :
           send_invoice_email(user, pk, "POST", PlainForm(TRUE), FALSE, FALSE,
                              TRUE)
    \/ \E user \in Users, pk \in Pks : InvoiceDetailView(user, pk)
    \/ \E user \in Users, pk \in Pks : generate_invoice_pdf(user, pk, TRUE)
    \/ \E user \in Users, c \in Clients : ClientDetailView(user, c)
    \/ \E user \in Users, c \in Clients, method \in Methods, valid \in BOOLEAN :
           /\ user \in OwnersActive \/ ~FoundClient(user, c)
           /\ ClientUpdateView(user, c, method, valid, "new")
    \/ \E user \in Users, c \in Clients, method \in Methods :
           /\ user \in OwnersActive \/ ~FoundClient(user, c)
           /\ ClientDeleteView(user, c, method)
    \/ \E user \in Users, i \in Items, method \in Methods, valid \in BOOLEAN :
           /\ user \in OwnersActive \/ ~FoundItem(user, i)
           /\ ItemUpdateView(user, i, method, valid, "new")
    \/ \E user \in Users, i \in Items, method \in Methods :
           /\ user \in OwnersActive \/ ~FoundItem(user, i)
           /\ ItemDeleteView(user, i, method)
    \/ \E user \in Users, i \in Items : item_detail_api(user, i)

SpecOwners == Init /\ [][NextOwners]_vars

(***************************************************************************)
(* SpecLists: clients and catalog items are created, renamed and deleted,  *)
(* invoices are created as draft or paid and deleted, and both users       *)
(* request the three lists.                                                *)
(***************************************************************************)
\* the users who create, rename and delete clients and catalog items
ListsActive == {"alice"}

ClientIds == Clients \cup {NewClient}

ItemIds == Items \cup {NewItem}

\* ?status= of the invoice list: absent, a status, a word that is no status
ListsFilters == {"", "paid", "draft", "invalid"}

ListsSubmissions(user) ==
    GoodPosts(user, SpecNumbers, {"draft", "paid"}, Rates) \X {<<Line>>}

NextLists ==
    \/ \E user \in Users : \E sub \in ListsSubmissions(user) :
           create_invoice(user, "POST", sub[1], sub[2])
    \/ \E user \in Users, pk \in Pks :
           /\ Found(user, pk)
           /\ delete_invoice(user, pk, "POST")
    \/ \E user \in ListsActive, method \in Methods, valid \in BOOLEAN :
           ClientCreateView(user, method, valid, "new")
    \/ \E user \in ListsActive, c \in ClientIds :
           ClientUpdateView(user, c, "POST", TRUE, "new")
    \/ \E user \in ListsActive, c \in ClientIds :
           ClientDeleteView(user, c, "POST")
    \/ \E user \in ListsActive, method \in Methods, valid \in BOOLEAN :
           ItemCreateView(user, method, valid, "new")
    \/ \E user \in ListsActive, i \in ItemIds :
           ItemUpdateView(user, i, "POST", TRUE, "new")
    \/ \E user \in ListsActive, i \in ItemIds : ItemDeleteView(user, i, "POST")
    \/ \E user \in Users : ClientListView(user)
    \/ \E user \in Users : ItemListView(user)
    \/ \E user \in Users, status \in ListsFilters : InvoiceListView(user, status)

SpecLists == Init /\ [][NextLists]_vars

(***************************************************************************)
(* SpecRefs: create_invoice and edit_invoice submissions that name a       *)
(* client and catalog items of the user or of the other user.              *)
(***************************************************************************)
\* posts with a client of either user
RefsPosts == {Post(c, "INV-1", "draft", 1000, 500) : c \in Clients}

\* line forms with a catalog item of either user, and a line form with a
\* catalog item that is marked for deletion
RefsLines ==
    {ItemLineForm(i) : i \in Items}
    \cup {[ItemLineForm("i_bob") EXCEPT !.DELETE = TRUE]}

\* formsets that keep at least min_num forms
RefsFormsets(initial) ==
    {forms \in Formsets(initial, RefsLines) :
        Cardinality(LiveForms(forms)) >= min_num}

RefsSubmissions(initial) == RefsPosts \X RefsFormsets(initial)

NextRefs ==
    \/ \E user \in Users : \E sub \in RefsSubmissions(0) :
           create_invoice(user, "POST", sub[1], sub[2])
    \/ \E user \in Users, pk \in Pks :
           /\ Found(user, pk)
           /\ \E sub \in RefsSubmissions(StoredLines(pk)) :
               edit_invoice(user, pk, "POST", sub[1], sub[2])

SpecRefs == Init /\ [][NextRefs]_vars

(***************************************************************************)
(* SpecLogin: every protected view is requested by a user who is logged in *)
(* and by one who is not.  @login_required and LoginRequiredMixin answer   *)
(* the latter before the view runs.                                        *)
(***************************************************************************)
\* request.user of a request without a session
AnonymousUser == "anonymous"

\* a view without the decorator
login_required_absent(user, op, method, view) == view

\* @login_required / LoginRequiredMixin around `view`
login_required(user, op, method, view) ==
    IF user = AnonymousUser
    THEN /\ response' = Response(op, user, NoPk, method, "login_redirect",
                                 "", {}, 0, "")
         /\ UNCHANGED <<invoices, line_items, nextPk, inflight, clients, catalog,
                        now>>
    ELSE view

\* the requesting users: one logged in, one not
LoginUsers == {"alice", AnonymousUser}

\* a submission that is valid for alice: her client, one line of 1 x 1000.00
LoginPost == Post("c_alice", "INV-1", "draft", 1000, 500)

NextLogin ==
    \/ \E user \in LoginUsers :
           login_required(user, "dashboard", "GET", dashboard(user, 2))
    \/ \E user \in LoginUsers :
           login_required(user, "invoice_dashboard", "GET",
                          invoice_dashboard(user, 2))
    \/ \E user \in LoginUsers :
           login_required(user, "client_list", "GET", ClientListView(user))
    \/ \E user \in LoginUsers :
           login_required(user, "item_list", "GET", ItemListView(user))
    \/ \E user \in LoginUsers :
           login_required(user, "invoice_list", "GET",
                          InvoiceListView(user, ""))
    \/ \E user \in LoginUsers, pk \in Pks :
           login_required(user, "detail", "GET", InvoiceDetailView(user, pk))
    \/ \E user \in LoginUsers, method \in Methods :
           login_required(user, "create", method,
                          create_invoice(user, method, LoginPost, <<Line>>))
    \/ \E user \in LoginUsers, pk \in Pks, method \in Methods :
           login_required(user, "edit", method,
                          edit_invoice(user, pk, method, LoginPost, <<Line>>))
    \/ \E user \in LoginUsers, pk \in Pks, method \in Methods :
           login_required(user, "delete", method,
                          delete_invoice(user, pk, method))
    \/ \E user \in LoginUsers, pk \in Pks :
           login_required(user, "status", "GET",
                          change_invoice_status(user, pk, "paid"))
    \/ \E user \in LoginUsers, pk \in Pks :
           login_required(user, "pdf", "GET",
                          generate_invoice_pdf(user, pk, TRUE))
    \/ \E user \in LoginUsers, pk \in Pks :
           login_required(user, "send", "POST",
                          send_invoice_email(user, pk, "POST", PlainForm(TRUE), FALSE,
                                             FALSE, TRUE))
    \/ \E user \in LoginUsers, c \in Clients :
           login_required(user, "client_detail", "GET",
                          ClientDetailView(user, c))
    \/ \E user \in LoginUsers :
           login_required(user, "client_create", "POST",
                          ClientCreateView(user, "POST", TRUE, "new"))
    \/ \E user \in LoginUsers, c \in Clients :
           login_required(user, "client_update", "POST",
                          ClientUpdateView(user, c, "POST", TRUE, "new"))
    \/ \E user \in LoginUsers, c \in Clients :
           login_required(user, "client_delete", "POST",
                          ClientDeleteView(user, c, "POST"))
    \/ \E user \in LoginUsers :
           login_required(user, "item_create", "POST",
                          ItemCreateView(user, "POST", TRUE, "new"))
    \/ \E user \in LoginUsers, i \in Items :
           login_required(user, "item_update", "POST",
                          ItemUpdateView(user, i, "POST", TRUE, "new"))
    \/ \E user \in LoginUsers, i \in Items :
           login_required(user, "item_delete", "POST",
                          ItemDeleteView(user, i, "POST"))
    \/ \E user \in LoginUsers, i \in Items :
           login_required(user, "item_api", "GET", item_detail_api(user, i))

SpecLogin == Init /\ [][NextLogin]_vars

(***************************************************************************)
(* SpecMail: send_invoice_email with CC and BCC values made of addresses,  *)
(* words that are no address, separators and whitespace.                   *)
(***************************************************************************)
\* the number of pieces of a CC value
MaxChunks == 3

NextMail ==
    LET \* addresses and a word that is no address
        MailWords == {"a@x.io", "b@x.io", "bad"}
        Pieces == MailWords \cup Separators \cup {" "}
        \* values in which no two words are adjacent: a word is a maximal run
        MailValues ==
            {v \in UNION {[1..n -> Pieces] : n \in 0..MaxChunks} :
                \A i \in 1..(Len(v) - 1) :
                    ~(v[i] \in MailWords /\ v[i + 1] \in MailWords)}
        \* every value as CC with an empty BCC, and a few CC values with BCC
        \* values
        MailForms ==
            {[valid |-> TRUE, cc |-> cc, bcc |-> <<>>] : cc \in MailValues}
            \cup {[valid |-> TRUE, cc |-> cc, bcc |-> bcc] :
                    cc \in {<<>>, <<"bad">>, <<",", " ", "a@x.io">>},
                    bcc \in {<<"bad">>, <<"b@x.io", ";", " ", "a@x.io">>}}
    IN
    \/ create_invoice("alice", "POST", LoginPost, <<Line>>)
    \/ \E pk \in Pks, form \in MailForms :
           /\ Found("alice", pk)
           /\ send_invoice_email("alice", pk, "POST", form, FALSE, FALSE, TRUE)
    \/ \E pk \in Pks :
           /\ Found("alice", pk)
           /\ send_invoice_email("alice", pk, "POST", PlainForm(TRUE), FALSE,
                                 FALSE, FALSE)

SpecMail == Init /\ [][NextMail]_vars

(***************************************************************************)
(* SpecSend: send_invoice_email in two steps, the load of the invoice and  *)
(* the delivery with the save that follows it, with change_invoice_status  *)
(* and edit_invoice requests of the same user in between.                  *)
(***************************************************************************)
\* invoice = get_object_or_404(Invoice, pk=pk, user=request.user): the
\* request holds the invoice as it is stored now
send_invoice_email_load(user, pk) ==
    /\ inflight = NoRequest
    /\ Found(user, pk)
    /\ inflight' = [user |-> user, pk |-> pk, invoice |-> invoices[pk]]
    /\ UNCHANGED <<invoices, line_items, nextPk, response, clients, catalog,
                   now>>

\* email.send() and, for an invoice loaded as a draft, invoice.status =
\* 'sent' and invoice.save(), which writes every field of the loaded object
send_invoice_email_send(delivered) ==
    /\ inflight # NoRequest
    /\ inflight.pk \in DOMAIN invoices
    /\ inflight' = NoRequest
    /\ UNCHANGED <<line_items, nextPk, clients, catalog, now>>
    /\ IF ~delivered
       THEN /\ response' = Response("send", inflight.user, inflight.pk, "POST",
                                    "send_failed", "", {}, 0,
                                    inflight.invoice.status)
            /\ UNCHANGED invoices
       ELSE /\ response' = Response("send", inflight.user, inflight.pk, "POST",
                                    "ok", "", {}, 1, inflight.invoice.status)
            /\ invoices' = IF inflight.invoice.status = "draft"
                           THEN [invoices EXCEPT ![inflight.pk] =
                                    [inflight.invoice EXCEPT !.status = "sent"]]
                           ELSE invoices

NextSend ==
    \/ create_invoice("alice", "POST", LoginPost, <<Line>>)
    \/ \E pk \in Pks : send_invoice_email_load("alice", pk)
    \/ \E delivered \in BOOLEAN : send_invoice_email_send(delivered)
    \/ \E pk \in Pks, status \in {"draft", "paid"} :
           /\ Found("alice", pk)
           /\ change_invoice_status("alice", pk, status)
    \/ \E pk \in Pks, rates \in CalcRates :
           /\ Found("alice", pk)
           /\ edit_invoice("alice", pk, "POST",
                           Post("c_alice", "INV-1", invoices[pk].status,
                                rates[1], rates[2]),
                           <<Line>>)

SpecSend == Init /\ [][NextSend]_vars

(***************************************************************************)
(* SpecDefault: new invoices are created with the number the form          *)
(* proposes, invoices are deleted, and the year changes.                   *)
(***************************************************************************)
\* the new years the clock passes
MaxYears == 1

NextDefault ==
    \/ \E user \in Users : create_invoice(user, "GET", NoPost, <<>>)
    \/ \E user \in Users : \E c \in ClientsOf(user) :
           create_invoice(user, "POST",
                          Post(c, InvoiceForm_initial(user), "draft", 1000, 500),
                          <<Line>>)
    \/ \E user \in Users, pk \in Pks :
           /\ Found(user, pk)
           /\ delete_invoice(user, pk, "POST")
    \/ \* timezone.now() moves into the next year
       /\ now < ThisYear + MaxYears
       /\ now' = now + 1
       /\ UNCHANGED <<invoices, line_items, nextPk, response, inflight, clients,
                      catalog>>

SpecDefault == Init /\ [][NextDefault]_vars

(***************************************************************************)
(* Claims.                                                                 *)
(***************************************************************************)
\* C1: no two stored invoices of the same owner have the same
\* invoice_number, whatever create, edit and delete requests were handled.
C1_UniqueNumberPerOwner ==
    \A a \in DOMAIN invoices : \A b \in DOMAIN invoices \ {a} :
        invoices[a].user = invoices[b].user
            => invoices[a].invoice_number # invoices[b].invoice_number

\* a create that validated before another request stored its number was
\* refused at invoice.save(): the owner holds that number once
C1_Witness ==
    /\ response.op = "create"
    /\ response.outcome = "error"
    /\ Cardinality({pk \in InvoicesOf(response.user) :
                      invoices[pk].invoice_number = response.arg}) = 1

\* invoices of `user` that carry `number`
Holding(user, number) ==
    {pk \in DOMAIN invoices :
        invoices[pk].user = user /\ invoices[pk].invoice_number = number}

\* invoices of other owners that carry `number`
HeldByOthers(user, number) ==
    {pk \in DOMAIN invoices :
        invoices[pk].user # user /\ invoices[pk].invoice_number = number}

\* the step completes a request and response' is its response (a step that
\* only validates a create_invoice form parks the request in inflight)
Handled(op) ==
    /\ response'.op = op
    /\ inflight' = inflight \/ inflight' = NoRequest

\* C2: a create_invoice POST whose number the same owner already uses fails
\* and leaves the stored invoices and line items as they were; one whose
\* number only another owner uses is not refused for its number, and when
\* nothing else is wrong with it the new invoice is stored next to the
\* other owner's, which is unchanged.
C2_DuplicatePerOwnerOnly ==
    [][(Handled("create") /\ response'.method = "POST") =>
        LET user == response'.user
            number == response'.arg
        IN  /\ Holding(user, number) # {} =>
                /\ response'.outcome # "ok"
                /\ invoices' = invoices
                /\ line_items' = line_items
            /\ (Holding(user, number) = {} /\ HeldByOthers(user, number) # {}) =>
                /\ "invoice_number" \notin response'.errors
                /\ response'.errors = {} =>
                    /\ response'.outcome = "ok"
                    /\ DOMAIN invoices' = DOMAIN invoices \cup {response'.pk}
                    /\ response'.pk \notin DOMAIN invoices
                    /\ invoices'[response'.pk].user = user
                    /\ invoices'[response'.pk].invoice_number = number
                    /\ \A pk \in DOMAIN invoices : invoices'[pk] = invoices[pk]
      ]_vars

\* both owners hold the same number, the second stored by a successful
\* create, and a further create of that number by one of them was refused
C2_Witness ==
    /\ response.op = "create"
    /\ response.method = "POST"
    /\ response.outcome = "invalid"
    /\ Holding(response.user, response.arg) # {}
    /\ HeldByOthers(response.user, response.arg) # {}

\* r is n/d rounded to the nearest integer, a tie going up
Nearest(r, n, d) == 2 * d * r <= 2 * n + d /\ 2 * n + d < 2 * d * (r + 1)

\* the line amounts of `items` added up from the last item to the first
RECURSIVE LineSum(_, _)
LineSum(items, n) ==
    IF n = 0 THEN 0 ELSE items[n].line_total + LineSum(items, n - 1)

\* the four derived fields of inv follow from `items` and the rates of inv
Agree(inv, items) ==
    /\ inv.subtotal = LineSum(items, Len(items))
    /\ Nearest(inv.tax_amount, inv.subtotal * inv.tax_percent, 10000)
    /\ Nearest(inv.discount_amount, inv.subtotal * inv.discount_percent, 10000)
    /\ inv.total = inv.subtotal + inv.tax_amount - inv.discount_amount

\* C3: right after calculate_totals the invoice's subtotal is the sum of its
\* line amounts (0 without line items), tax_amount and discount_amount are
\* subtotal * percent / 100 rounded to 2 decimals, and total is
\* subtotal + tax_amount - discount_amount, not rounded again; one line of
\* 1 x 1000.00 at 10% tax and 5% discount gives 1000.00, 100.00, 50.00 and
\* 1050.00.
C3_TotalsFormula ==
    response.op = "calculate_totals" =>
        LET inv == invoices[response.pk]
            items == line_items[response.pk]
        IN  /\ Agree(inv, items)
            /\ items = <<>> => inv.subtotal = 0
            /\ ( /\ Len(items) = 1
                 /\ items[1].quantity = 100
                 /\ items[1].unit_price = 100000
                 /\ inv.tax_percent = 1000
                 /\ inv.discount_percent = 500 ) =>
                    /\ inv.subtotal = 100000
                    /\ inv.tax_amount = 10000
                    /\ inv.discount_amount = 5000
                    /\ inv.total = 105000

\* calculate_totals has run on two line items whose tax does not come out
\* in whole cents
C3_Witness ==
    /\ response.op = "calculate_totals"
    /\ Len(line_items[response.pk]) = 2
    /\ invoices[response.pk].subtotal > 0
    /\ invoices[response.pk].tax_amount * 10000
         # invoices[response.pk].subtotal * invoices[response.pk].tax_percent

\* C4: every stored invoice's subtotal, tax_amount, discount_amount and
\* total agree with its stored line items and its stored tax_percent and
\* discount_percent, after any requests, passed or failed.
C4_StoredTotalsAgree ==
    \A pk \in DOMAIN invoices : Agree(invoices[pk], line_items[pk])

\* C5: a run of calculate_totals that directly follows a run on the same
\* invoice, line items and rates unchanged in between, leaves subtotal,
\* tax_amount, discount_amount and total as the first run set them.
C5_Idempotent ==
    [][(response'.op = "calculate_totals" /\ response'.arg = "again") =>
        LET once == invoices[response'.pk]
            twice == invoices'[response'.pk]
        IN  /\ line_items' = line_items
            /\ twice.tax_percent = once.tax_percent
            /\ twice.discount_percent = once.discount_percent
            /\ twice.subtotal = once.subtotal
            /\ twice.tax_amount = once.tax_amount
            /\ twice.discount_amount = once.discount_amount
            /\ twice.total = once.total
      ]_vars

\* calculate_totals has run twice in succession on an invoice with line
\* items and a tax and a discount that are not zero
C5_Witness ==
    /\ response.op = "calculate_totals"
    /\ response.arg = "again"
    /\ line_items[response.pk] # <<>>
    /\ invoices[response.pk].tax_amount > 0
    /\ invoices[response.pk].discount_amount > 0

\* C6: every stored line item's line amount is quantity x unit_price rounded
\* to 2 decimals, whatever line amount its creator passed, and is 0 when the
\* quantity or the unit price is 0.
C6_LineAmount ==
    \A pk \in DOMAIN line_items :
        \A i \in 1..Len(line_items[pk]) :
            LET item == line_items[pk][i]
            IN  /\ Nearest(item.line_total,
                           item.quantity * item.unit_price, 100)
                /\ (item.quantity = 0 \/ item.unit_price = 0) =>
                        item.line_total = 0

\* two line items were created: 0.5 x 0.07, stored as 0.04, which is none
\* of the amounts a creator passes, and one with a quantity of 0
C6_Witness ==
    /\ response.op = "item_create"
    /\ \E i, j \in 1..Len(line_items[response.pk]) :
        LET a == line_items[response.pk][i]
            b == line_items[response.pk][j]
        IN  /\ a.quantity = 50 /\ a.unit_price = 7 /\ a.line_total = 4
            /\ a.line_total \notin CalcGivenTotals
            /\ b.quantity = 0 /\ b.unit_price > 0 /\ b.line_total = 0

\* the other fields of the invoices and all line items stay as they are
OnlyStatusMayChange ==
    /\ line_items' = line_items
    /\ DOMAIN invoices' = DOMAIN invoices
    /\ \A pk \in DOMAIN invoices :
        [invoices'[pk] EXCEPT !.status = invoices[pk].status] = invoices[pk]

\* C7: a send_invoice_email request changes a stored status exactly when the
\* message was delivered and the invoice was a draft, and then to sent; when
\* delivery failed or the invoice was sent, paid, overdue or canceled its
\* status stays.
C7_SentIffDeliveredDraft ==
    [][Handled("send") =>
        /\ \A pk \in DOMAIN invoices \cap DOMAIN invoices' :
            /\ invoices'[pk].status # invoices[pk].status
                <=> /\ pk = response'.pk
                    /\ invoices[pk].user = response'.user
                    /\ response'.mails = 1
                    /\ invoices[pk].status = "draft"
            /\ invoices'[pk].status # invoices[pk].status
                => invoices'[pk].status = "sent"
        /\ OnlyStatusMayChange
      ]_vars

\* a message was delivered for a draft, which is now sent
C7_Witness ==
    /\ response.op = "send"
    /\ response.outcome = "ok"
    /\ response.mails = 1
    /\ response.was = "draft"
    /\ invoices[response.pk].status = "sent"

\* C8: when delivery raises an error, or a PDF attachment is asked for while
\* WeasyPrint is not installed, send_invoice_email delivers nothing and
\* leaves every invoice and every line item as stored.
C8_FailedSendChangesNothing ==
    [][(Handled("send")
        /\ response'.outcome \in {"send_failed", "pdf_unavailable"}) =>
            /\ response'.mails = 0
            /\ invoices' = invoices
            /\ line_items' = line_items
      ]_vars

\* delivery failed for a draft with line items, and it is still a draft
C8_Witness ==
    /\ response.op = "send"
    /\ response.outcome = "send_failed"
    /\ response.was = "draft"
    /\ invoices[response.pk].status = "draft"
    /\ line_items[response.pk] # <<>>

\* C9: change_invoice_status by the owner with one of the five statuses as
\* target sets the invoice's status to it whatever the status was, and
\* leaves the invoice's other fields, the other invoices and all line items
\* as they were.
C9_AnyStatusToAny ==
    [][(Handled("status")
        /\ Found(response'.user, response'.pk)
        /\ response'.arg \in {"draft", "sent", "paid", "overdue", "canceled"}) =>
            /\ response'.outcome = "ok"
            /\ invoices' = [invoices EXCEPT ![response'.pk].status =
                                                response'.arg]
            /\ line_items' = line_items
      ]_vars

\* a paid invoice with line items was set back to draft
C9_Witness ==
    /\ response.op = "status"
    /\ response.outcome = "ok"
    /\ response.was = "paid"
    /\ response.arg = "draft"
    /\ invoices[response.pk].status = "draft"
    /\ invoices[response.pk].total > 0

\* C10: change_invoice_status with a target outside the five statuses is
\* refused and changes no stored invoice; after every step every stored
\* invoice's status is one of draft, sent, paid, overdue, canceled.
C10_StatusEnumerated ==
    [][/\ \A pk \in DOMAIN invoices' :
            invoices'[pk].status
                \in {"draft", "sent", "paid", "overdue", "canceled"}
       /\ (Handled("status")
           /\ response'.arg
                \notin {"draft", "sent", "paid", "overdue", "canceled"}) =>
                /\ response'.outcome \in {"invalid", "not_found"}
                /\ invoices' = invoices
                /\ line_items' = line_items
      ]_vars

\* the owner's change of a paid invoice to the status "invalid" was refused
C10_Witness ==
    /\ response.op = "status"
    /\ response.outcome = "invalid"
    /\ response.arg = "invalid"
    /\ response.was = "paid"
    /\ invoices[response.pk].status = "paid"

\* the stored invoices owned by `user`
OwnedBy(user) == {pk \in DOMAIN invoices : invoices[pk].user = user}

\* the invoices of `user` due before `today` that are sent or still a draft
PastDueUnpaid(user, today) ==
    {pk \in OwnedBy(user) :
        /\ invoices[pk].due_date < today
        /\ invoices[pk].status = "sent" \/ invoices[pk].status = "draft"}

\* C11: the core dashboard's overdue_invoices is the number of the
\* requesting user's invoices that fall due strictly before the day of the
\* request and are sent or draft; paid, canceled and overdue invoices and
\* invoices due on that day or later are not counted.
C11_OverdueCount ==
    response.op = "dashboard" =>
        /\ response.context.overdue_invoices
            = Cardinality(PastDueUnpaid(response.user, response.context.today))
        /\ \A pk \in OwnedBy(response.user) :
            ( \/ invoices[pk].status \in {"paid", "canceled", "overdue"}
              \/ invoices[pk].due_date >= response.context.today )
                => response.context.overdue_invoices
                     <= Cardinality(OwnedBy(response.user) \ {pk})

\* the dashboard counted one of the user's two invoices: both were due the
\* day before, one is sent and the other paid
C11_Witness ==
    /\ response.op = "dashboard"
    /\ response.context.overdue_invoices = 1
    /\ \E a, b \in OwnedBy(response.user) :
        /\ invoices[a].status = "sent"
        /\ invoices[a].due_date < response.context.today
        /\ invoices[b].status = "paid"
        /\ invoices[b].due_date < response.context.today

\* C12: the overdue count of the invoices-app dashboard is the number of
\* the user's invoices due before the day of the request and sent or draft,
\* the number the core dashboard shows for the same user, data and day.
C12_SameOverdueCount ==
    response.op = "invoice_dashboard" =>
        response.context.overdue_count
            = Cardinality(PastDueUnpaid(response.user, response.context.today))

\* C13: in the invoice list's context draft_count, sent_count, paid_count
\* and overdue_count are the numbers of the requesting user's invoices
\* stored with that status and total_invoices is the number of all of the
\* user's invoices, whatever ?status= filter selects the listed rows.
C13_ListCounts ==
    response.op = "invoice_list" =>
        LET mine == OwnedBy(response.user)
            Stored(status) ==
                Cardinality({pk \in mine : invoices[pk].status = status})
        IN  /\ response.context.draft_count = Stored("draft")
            /\ response.context.sent_count = Stored("sent")
            /\ response.context.paid_count = Stored("paid")
            /\ response.context.overdue_count = Stored("overdue")
            /\ response.context.total_invoices = Cardinality(mine)

\* the list is filtered to the user's one draft and still counts the user's
\* paid invoice
C13_Witness ==
    /\ response.op = "invoice_list"
    /\ response.arg = "draft"
    /\ Cardinality(response.context.object_list) = 1
    /\ response.context.paid_count = 1
    /\ response.context.total_invoices = 2

RECURSIVE TotalOf(_)
\* the totals of the invoices pks added up, the highest pk first
TotalOf(pks) ==
    IF pks = {} THEN 0
    ELSE LET last == CHOOSE pk \in pks : \A other \in pks : other <= pk
         IN  TotalOf(pks \ {last}) + invoices[last].total

\* C19: on the core dashboard total_revenue is the sum of the totals of the
\* user's paid invoices and total_outstanding the sum of the totals of the
\* user's draft, sent, overdue and canceled invoices, each 0 when there is
\* no such invoice, and paid_invoices + unpaid_invoices = total_invoices.
C19_RevenueAndOutstanding ==
    response.op = "dashboard" =>
        LET mine == OwnedBy(response.user)
            paid == {pk \in mine : invoices[pk].status = "paid"}
            unpaid == {pk \in mine : invoices[pk].status
                            \in {"draft", "sent", "overdue", "canceled"}}
        IN  /\ response.context.total_revenue = TotalOf(paid)
            /\ response.context.total_outstanding = TotalOf(unpaid)
            /\ paid = {} => response.context.total_revenue = 0
            /\ unpaid = {} => response.context.total_outstanding = 0
            /\ response.context.paid_invoices + response.context.unpaid_invoices
                = response.context.total_invoices
            /\ response.context.total_invoices = Cardinality(mine)

\* the user has a paid invoice of 1000.00 and a canceled one of 0.04, which
\* the dashboard shows as revenue and as outstanding
C19_Witness ==
    /\ response.op = "dashboard"
    /\ response.context.total_revenue = 100000
    /\ response.context.total_outstanding = 4
    /\ \E pk \in OwnedBy(response.user) : invoices[pk].status = "canceled"

\* C20: the core dashboard's payment_rate is 0 for a user without invoices
\* and otherwise paid_invoices * 100 / total_invoices rounded to an integer
\* next to it; it lies between 0 and 100, and 2 paid of 5 give 40.
C20_PaymentRate ==
    response.op = "dashboard" =>
        LET mine == OwnedBy(response.user)
            total == Cardinality(mine)
            paid == Cardinality({pk \in mine : invoices[pk].status = "paid"})
            rate == response.context.payment_rate
        IN  /\ rate \in 0..100
            /\ total = 0 => rate = 0
            /\ total > 0 =>
                /\ 2 * (rate * total - paid * 100) <= total
                /\ 2 * (paid * 100 - rate * total) <= total
            /\ (paid = 2 /\ total = 5) => rate = 40

\* the dashboard shows 40 for a user with 2 paid invoices of 5
C20_Witness ==
    /\ response.op = "dashboard"
    /\ response.context.total_invoices = 5
    /\ response.context.paid_invoices = 2
    /\ response.context.payment_rate = 40

\* C16: an invoice that create_invoice has just stored is a draft, and an
\* invoice takes a status other than draft only in a status change, an edit
\* or a send.
C16_CreatedAsDraft ==
    [][/\ (Handled("create") /\ response'.outcome = "ok") =>
            invoices'[response'.pk].status = "draft"
       /\ \A pk \in DOMAIN invoices' :
            ( /\ invoices'[pk].status # "draft"
              /\ pk \in DOMAIN invoices => invoices[pk].status
                                             # invoices'[pk].status )
                => response'.op \in {"status", "edit", "send"}
      ]_vars

\* C17: a POST to delete_invoice by the owner removes the invoice and its
\* line items and leaves every other invoice and its line items as they
\* were; a GET removes nothing; no line items are ever stored for an invoice
\* that is not.
C17_DeleteCascades ==
    [][/\ DOMAIN line_items' \subseteq DOMAIN invoices'
       /\ (Handled("delete") /\ Found(response'.user, response'.pk)) =>
            IF response'.method = "POST"
            THEN /\ response'.pk \notin DOMAIN invoices'
                 /\ response'.pk \notin DOMAIN line_items'
                 /\ DOMAIN invoices' = DOMAIN invoices \ {response'.pk}
                 /\ \A pk \in DOMAIN invoices \ {response'.pk} :
                        /\ invoices'[pk] = invoices[pk]
                        /\ line_items'[pk] = line_items[pk]
            ELSE /\ invoices' = invoices
                 /\ line_items' = line_items
      ]_vars

\* the owner's POST deleted one of two stored invoices; the other one, with
\* its line items, is still there
C17_Witness ==
    /\ response.op = "delete"
    /\ response.method = "POST"
    /\ response.outcome = "ok"
    /\ response.pk \notin DOMAIN invoices
    /\ \E pk \in DOMAIN invoices : line_items[pk] # <<>>

\* C15: the client list, the item list and the invoice list show exactly
\* the records whose owner is the requesting user, none of another owner;
\* the invoice list requested with ?status=s shows exactly the user's
\* invoices whose stored status is s.
C15_ListsShowOwnRecords ==
    /\ response.op = "client_list" =>
        response.context.object_list =
            {c \in DOMAIN clients : clients[c].user = response.user}
    /\ response.op = "item_list" =>
        response.context.object_list =
            {i \in DOMAIN catalog : catalog[i].user = response.user}
    /\ response.op = "invoice_list" =>
        response.context.object_list =
            {pk \in DOMAIN invoices :
                /\ invoices[pk].user = response.user
                /\ response.arg # "" => invoices[pk].status = response.arg}

\* the list of paid invoices shows the user's paid invoice and leaves out
\* the paid invoice of the other user
C15_Witness ==
    /\ response.op = "invoice_list"
    /\ response.arg = "paid"
    /\ response.context.object_list # {}
    /\ \E pk \in DOMAIN invoices :
        invoices[pk].user # response.user /\ invoices[pk].status = "paid"

\* the requests for one invoice, for one client, for one catalog item
InvoiceRecordOps == {"detail", "edit", "delete", "status", "pdf", "send"}

ClientRecordOps == {"client_detail", "client_update", "client_delete"}

ItemRecordOps == {"item_update", "item_delete", "item_api"}

\* response' answers a request for a stored record whose owner is not the
\* requesting user
ByNonOwner ==
    \/ /\ response'.op \in InvoiceRecordOps
       /\ response'.pk \in DOMAIN invoices
       /\ invoices[response'.pk].user # response'.user
    \/ /\ response'.op \in ClientRecordOps
       /\ response'.arg \in DOMAIN clients
       /\ clients[response'.arg].user # response'.user
    \/ /\ response'.op \in ItemRecordOps
       /\ response'.arg \in DOMAIN catalog
       /\ catalog[response'.arg].user # response'.user

\* C14: a request for an invoice (detail, edit, delete, status change, PDF,
\* send-email), for a client (detail, update, delete) or for a catalog item
\* (update, delete, item API) made by a user who is not the owner of that
\* record is answered not-found, and no invoice, line item, client or
\* catalog item is modified or deleted and no email is sent.
C14_NonOwnerNotFound ==
    [][ByNonOwner =>
            /\ response'.outcome = "not_found"
            /\ response'.mails = 0
            /\ invoices' = invoices
            /\ line_items' = line_items
            /\ clients' = clients
            /\ catalog' = catalog
      ]_vars

\* a POST to delete_invoice by the user who does not own the invoice was
\* answered not-found and the invoice and its line items are still stored
C14_Witness ==
    /\ response.op = "delete"
    /\ response.method = "POST"
    /\ response.outcome = "not_found"
    /\ response.pk \in DOMAIN invoices
    /\ invoices[response.pk].user # response.user
    /\ line_items[response.pk] # <<>>

\* every stored invoice has a client of its owner, and every stored line
\* item that selects a catalog item selects one of the invoice's owner
ReferencesOwned ==
    \A pk \in DOMAIN invoices :
        /\ FoundClient(invoices[pk].user, invoices[pk].client)
        /\ \A n \in 1..Len(line_items[pk]) :
            \/ line_items[pk][n].item = NoItem
            \/ FoundItem(invoices[pk].user, line_items[pk][n].item)

\* the post names a client of another owner
ForeignClient(user, post) ==
    post.client \in DOMAIN clients /\ clients[post.client].user # user

\* one of the forms `rows` names a catalog item of another owner
ForeignItem(user, forms, rows) ==
    \E n \in rows :
        forms[n].item \in DOMAIN catalog /\ catalog[forms[n].item].user # user

\* the step handles the submission as a create_invoice POST or as an
\* edit_invoice POST for an invoice of the user
Submitted(user, post, forms) ==
    \/ /\ response'.op = "create"
       /\ create_invoice(user, "POST", post, forms)
    \/ /\ response'.op = "edit"
       /\ Found(user, response'.pk)
       /\ Len(forms) >= StoredLines(response'.pk)
       /\ edit_invoice(user, response'.pk, "POST", post, forms)

\* C18 as stated: after create_invoice and edit_invoice requests every
\* stored invoice references a client of its owner and every line item that
\* references a catalog item references one of that owner, and a submission
\* that names another owner's client, or another owner's catalog item in
\* any of its line forms, is rejected: a step that is not a rejection
\* handles no such submission.
C18_ForeignNamedRejected ==
    [][/\ ReferencesOwned'
       /\ response'.outcome \in {"invalid", "error"}
          \/ \A post \in RefsPosts, forms \in RefsFormsets(0) :
                Submitted(response'.user, post, forms) =>
                    /\ ~ForeignClient(response'.user, post)
                    /\ ~ForeignItem(response'.user, forms, DOMAIN forms)
      ]_vars

\* C18, amended: as above, where the submissions that are rejected are
\* those that name another owner's client, or another owner's catalog item
\* in a line form that is not marked for deletion; a line form marked for
\* deletion is not validated and stores nothing.
C18_ForeignStoredRejected ==
    [][/\ ReferencesOwned'
       /\ response'.outcome \in {"invalid", "error"}
          \/ \A post \in RefsPosts, forms \in RefsFormsets(0) :
                Submitted(response'.user, post, forms) =>
                    /\ ~ForeignClient(response'.user, post)
                    /\ ~ForeignItem(response'.user, forms, LiveForms(forms))
      ]_vars

\* an edit_invoice POST with a valid invoice form was refused for its line
\* forms, of which none is malformed and one is kept: a line form named a
\* catalog item of the other user; the invoice's stored line item still
\* selects an item of its owner
C18_Witness ==
    /\ response.op = "edit"
    /\ response.outcome = "invalid"
    /\ response.errors = {"line_items"}
    /\ \E n \in 1..Len(line_items[response.pk]) :
        FoundItem(response.user, line_items[response.pk][n].item)

\* C24: an edit_invoice POST that is rejected, its invoice form valid and
\* its line-item formset invalid included, leaves every stored invoice and
\* every stored line item as it was before the request.
C24_RejectedEditChangesNothing ==
    [][(/\ Handled("edit")
        /\ response'.method = "POST"
        /\ response'.outcome \in {"invalid", "error"}) =>
            /\ invoices' = invoices
            /\ line_items' = line_items
      ]_vars

\* C25: a create_invoice POST that fails validation, in the invoice form or
\* in the line-item formset, leaves the stored invoices and line items as
\* they were before the request.
C25_FailedCreateStoresNothing ==
    [][(/\ Handled("create")
        /\ response'.method = "POST"
        /\ response'.outcome = "invalid") =>
            /\ invoices' = invoices
            /\ line_items' = line_items
            /\ DOMAIN line_items' = DOMAIN invoices'
      ]_vars

\* a create_invoice POST was refused for its line forms after the invoice
\* row had been inserted: the sequence has advanced past it and no invoice
\* and no line item is stored
C25_Witness ==
    /\ response.op = "create"
    /\ response.outcome = "invalid"
    /\ response.errors = {"line_items"}
    /\ nextPk > MaxInvoices
    /\ invoices = <<>>
    /\ line_items = <<>>

\* C26: an edit_invoice POST that keeps the invoice's own number is not
\* refused for its number, one that names the number of another invoice of
\* the same owner is rejected and changes nothing, and one that names a
\* number only another owner's invoice holds is not refused for its number;
\* a submission with nothing else wrong is stored with the number it names.
C26_EditNumberPreCheck ==
    [][(/\ Handled("edit")
        /\ response'.method = "POST"
        /\ Found(response'.user, response'.pk)
        /\ response'.arg # "") =>
        LET user == response'.user
            pk == response'.pk
            number == response'.arg
        IN  /\ Holding(user, number) \ {pk} # {} =>
                /\ response'.outcome = "invalid"
                /\ "invoice_number" \in response'.errors
                /\ invoices' = invoices
                /\ line_items' = line_items
            /\ Holding(user, number) \ {pk} = {} =>
                /\ "invoice_number" \notin response'.errors
                /\ response'.outcome # "error"
                /\ response'.errors = {} =>
                    /\ response'.outcome = "ok"
                    /\ invoices'[pk].invoice_number = number
      ]_vars

\* an edit that kept the invoice's number was stored while an invoice of
\* the other owner holds the same number
C26_Witness ==
    /\ response.op = "edit"
    /\ response.outcome = "ok"
    /\ response.was = ""
    /\ invoices[response.pk].invoice_number = response.arg
    /\ HeldByOthers(response.user, response.arg) # {}

\* C27: when a create_invoice request has passed the form's pre-check and,
\* before it saves, the same owner's number is stored by another request,
\* its save fails: the owner holds the number once, and the request leaves
\* no invoice and no line items behind.
C27_RaceLoserStoresNothing ==
    [][(/\ inflight # NoRequest
        /\ inflight' = NoRequest
        /\ Holding(inflight.user, inflight.post.invoice_number) # {}) =>
            /\ response'.outcome = "error"
            /\ response'.pk = NoPk
            /\ invoices' = invoices
            /\ line_items' = line_items
            /\ Cardinality(Holding(inflight.user,
                                   inflight.post.invoice_number)) = 1
      ]_vars

\* the request that saved last was refused at invoice.save(); the winner's
\* invoice is stored with its line items and every stored line item
\* belongs to a stored invoice
C27_Witness ==
    /\ response.op = "create"
    /\ response.outcome = "error"
    /\ \E pk \in Holding(response.user, response.arg) : line_items[pk] # <<>>
    /\ DOMAIN line_items = DOMAIN invoices
    /\ inflight = NoRequest

C23_AnonymousRedirected ==
    [][response'.user = AnonymousUser =>
            /\ response'.outcome = "login_redirect"
            /\ response'.mails = 0
            /\ response'.context = NoContext
            /\ UNCHANGED <<invoices, line_items, nextPk, clients, catalog>>
      ]_vars

\* a status change to paid requested without a login was redirected while
\* a draft invoice is stored
C23_Witness ==
    /\ response.user = AnonymousUser
    /\ response.op = "status"
    /\ response.outcome = "login_redirect"
    /\ \E pk \in DOMAIN invoices : invoices[pk].status = "draft"

\* C22: send_invoice_email validates every entry of CC and of BCC before
\* anything is sent.  The entries of a value are what lies between its
\* separators "," and ";", trimmed, the blank ones left out.  With an entry
\* that is no address in either field no message is sent and the invoice
\* is left as it was; otherwise the message's cc and bcc are the entries
\* of the field, in the order of the value.
EntryStarts(v) ==
    {i \in DOMAIN v :
        /\ v[i] \notin Separators \cup {" "}
        /\ \A j \in 1..(i - 1) :
               (\A k \in j..(i - 1) : v[k] \notin Separators) =>
                   v[j] = " "}

EntryEnd(v, i) ==
    CHOOSE e \in i..Len(v) :
        /\ v[e] # " "
        /\ \A k \in i..e : v[k] \notin Separators
        /\ \A j \in (e + 1)..Len(v) :
               (\A k \in e..j : v[k] \notin Separators) => v[j] = " "

Malformed(v) ==
    \E i \in EntryStarts(v) :
        EntryEnd(v, i) # i \/ v[i] \notin {"a@x.io", "b@x.io"}

IsEntriesOf(m, v) ==
    /\ Len(m) = Cardinality(EntryStarts(v))
    /\ \A i \in EntryStarts(v) :
           m[Cardinality({j \in EntryStarts(v) : j <= i})] = v[i]

C22_CcBccValidatedBeforeDispatch ==
    [][(response'.op = "send" /\ response'.method = "POST"
        /\ response'.outcome # "not_found") =>
        LET form == response'.form
        IN  IF Malformed(form.cc) \/ Malformed(form.bcc)
            THEN /\ response'.mails = 0
                 /\ response'.outcome = "invalid"
                 /\ invoices' = invoices
            ELSE /\ response'.outcome \in {"ok", "send_failed"}
                 /\ response'.outcome = "ok" =>
                     /\ response'.mails = 1
                     /\ IsEntriesOf(response'.message.cc, form.cc)
                     /\ IsEntriesOf(response'.message.bcc, form.bcc)]_vars

\* a message went out to the one entry of a CC value that starts with a
\* blank entry, trimmed, and to two BCC entries in the order they were
\* written
C22_Witness ==
    /\ response.op = "send"
    /\ response.outcome = "ok"
    /\ response.form.cc = <<",", " ", "a@x.io">>
    /\ response.message.cc = <<"a@x.io">>
    /\ response.form.bcc = <<"b@x.io", ";", " ", "a@x.io">>
    /\ response.message.bcc = <<"b@x.io", "a@x.io">>

\* a send refused for one entry of CC that is no address
C22_WitnessRefused ==
    /\ response.op = "send"
    /\ response.outcome = "invalid"
    /\ response.form.cc = <<"a@x.io", ",", "bad">>
    /\ response.form.bcc = <<>>
    /\ response.pk \in DOMAIN invoices
    /\ invoices[response.pk].status = "draft"

\* C28: the save that ends a send_invoice_email request which loaded the
\* invoice as a draft does not overwrite what another request stored for
\* that invoice in the meantime: where the stored invoice differs from the
\* loaded one, the send leaves the stored invoice as it is.
C28_SendKeepsConcurrentWrites ==
    [][(/\ inflight # NoRequest
        /\ inflight' = NoRequest
        /\ response'.op = "send"
        /\ inflight.invoice.status = "draft"
        /\ invoices[inflight.pk] # inflight.invoice) =>
            invoices'[inflight.pk] = invoices[inflight.pk]]_vars

\* an invoice stored as paid while a send was under way
C28_PaidDuringSend ==
    /\ inflight # NoRequest
    /\ inflight.invoice.status = "draft"
    /\ invoices[inflight.pk].status = "paid"

\* C21: the invoice number a new create form proposes reads "INV-", the
\* four digits of the current year, "-", and five digits that are the
\* decimal notation, zeros in front, of one more than the number of stored
\* invoices of the requesting user that were created in the current year.
\* It is computed from the invoices stored when the form is built; the
\* invoices of other users and of other years do not count.
C21_DefaultInvoiceNumber ==
    [][(/\ response'.op = "create"
        /\ response'.method = "GET"
        /\ now' = now) =>
        LET number == response'.arg
            n == Cardinality({pk \in DOMAIN invoices' :
                                /\ invoices'[pk].user = response'.user
                                /\ invoices'[pk].created_at = now}) + 1
            digit(c) == CHOOSE d \in 0..9 : ToString(d) = c
            RECURSIVE value(_)
            value(text) ==
                IF Len(text) = 0 THEN 0
                ELSE 10 * value(SubSeq(text, 1, Len(text) - 1))
                     + digit(SubSeq(text, Len(text), Len(text)))
        IN  /\ Len(number) = 14
            /\ SubSeq(number, 1, 4) = "INV-"
            /\ value(SubSeq(number, 5, 8)) = now
            /\ SubSeq(number, 9, 9) = "-"
            /\ value(SubSeq(number, 10, 14)) = n]_vars

\* a user who holds one invoice of this year, while another user holds one
\* too, is shown a form that proposes the second number of the year
C21_Witness ==
    /\ response.op = "create"
    /\ response.method = "GET"
    /\ response.user = "alice"
    /\ response.arg = "INV-2025-00002"
    /\ \E pk \in DOMAIN invoices : invoices[pk].user = "bob"
    /\ Cardinality({pk \in DOMAIN invoices : invoices[pk].user = "alice"}) = 1

\* C30: when a user has only created invoices with the proposed number and
\* deleted invoices, all within one year, the number a new create form
\* proposes is not the number of a stored invoice of that user.
C30_DefaultNumberIsFree ==
    (/\ response.op = "create"
     /\ response.method = "GET"
     /\ now = ThisYear) =>
        \A pk \in DOMAIN invoices :
            invoices[pk].user = response.user =>
                invoices[pk].invoice_number # response.arg

====
